---- MODULE Spec2Model ----
(***************************************************************************)
(* Model of the evaluation harness' agent tool-calling loop,               *)
(* AzureOpenAIAgentLoop.run in src/sandbox/evaluation/agent_loop.py.       *)
(*                                                                         *)
(* Text is modelled as a sequence of tokens (a tag such as "<response>" is *)
(* one token), so that the substring tests of the code become membership   *)
(* tests on the sequence.  Python's None is the one-token text None for a  *)
(* content, and the empty sequence for the tool_calls of a message.        *)
(***************************************************************************)
EXTENDS Integers, Sequences, FiniteSets, TLC

\* ------------------------------------------------------------------------
\* Bounds of the model
\* ------------------------------------------------------------------------
\* largest max_iterations an agent is constructed with
MaxIter == 2
\* largest number of tool calls the model requests during one run
MaxToolCalls == 2

\* ------------------------------------------------------------------------
\* Values
\* ------------------------------------------------------------------------
None == <<"None">>

EmptyStr == <<>>

SystemPrompt == <<"You are an AI assistant with access to tools.">>

Prompts == {<<"What is 2+2?">>}

RequiredTags == {"<response>", "<summary>", "<feedback>"}

FullContent ==
    <<"<summary>", "s", "</summary>", "<feedback>", "f", "</feedback>",
      "<response>", "4", "</response>">>

\* a reply that opens the three tags and closes none
OpenOnlyContent == <<"<summary>", "s", "<feedback>", "f", "<response>", "4">>

\* contents of a reply of the chat-completion capability
Contents ==
    { None,
      <<"4">>,
      <<"<summary>", "s", "</summary>", "<response>", "4", "</response>">>,
      OpenOnlyContent,
      FullContent }

\* contents of a reply that also carries tool calls
ToolTurnContents == {None, FullContent}

ToolNames == {"calc", "shell"}

ObjectArgs == "{\"expr\": \"2+2\"}"

ArrayArgs == "[1, 2]"

BadArgs == "{\"expr\": "

\* function part of a tool call as the model emits it
ToolCallSpecs ==
    { [name |-> "calc", arguments |-> ObjectArgs],
      [name |-> "shell", arguments |-> ArrayArgs],
      [name |-> "calc", arguments |-> BadArgs] }

\* clock ticks that pass while one tool invocation is awaited
Ticks == {0, 1}

ToolResults == {"4"}

ErrorTypes == {"RuntimeError"}

ErrorMsgs == {"boom"}

SeqsUpTo(S, n) == UNION {[1..m -> S] : m \in 0..n}

Last(s) == s[Len(s)]

IsPrefix(s, t) == Len(s) <= Len(t) /\ SubSeq(t, 1, Len(s)) = s

\* ------------------------------------------------------------------------
\* Pure helpers of the code
\* ------------------------------------------------------------------------
\* "<tag>" in final_content
Contains(text, tok) == \E i \in 1..Len(text) : text[i] = tok

\* message.content or ""
OrEmpty(content) == IF content = None \/ content = EmptyStr THEN EmptyStr ELSE content

\* json.loads(tool_call.function.arguments)
JsonLoads(text) ==
    CASE text = ObjectArgs -> [ok |-> TRUE, value |-> [type |-> "dict", json |-> text]]
      [] text = ArrayArgs  -> [ok |-> TRUE, value |-> [type |-> "list", json |-> text]]
      [] OTHER             -> [ok |-> FALSE, value |-> [type |-> "JSONDecodeError", json |-> text]]

\* mutant of MissingTags: only the response tag is tested
MissingTags_ResponseOnly(final_content) ==
    IF ~Contains(final_content, "<response>") THEN <<"<response>">> ELSE <<>>

\* the missing_tags list, in the order the code tests the tags
MissingTags(final_content) ==
    (IF ~Contains(final_content, "<response>") THEN <<"<response>">> ELSE <<>>)
    \o (IF ~Contains(final_content, "<summary>") THEN <<"<summary>">> ELSE <<>>)
    \o (IF ~Contains(final_content, "<feedback>") THEN <<"<feedback>">> ELSE <<>>)

\* mutant of RetryContent: the three tags are always listed as missing
RetryContent_AllThree(missing_tags) ==
    <<"ERROR: Your response is missing required tags: ",
      "<response>", "<summary>", "<feedback>",
      ". You MUST provide ALL THREE tags: <summary>, <feedback>, and <response>.">>

\* content of the synthetic user message that forces the retry
RetryContent(missing_tags) ==
    <<"ERROR: Your response is missing required tags: ">>
    \o missing_tags
    \o <<". You MUST provide ALL THREE tags: <summary>, <feedback>, and <response>.">>

\* the synthetic tool result built when call_tool raises
ErrorResult(error_type, error_msg) ==
    [isError |-> TRUE,
     text |-> <<"ERROR: Tool execution failed", "Type: ", error_type,
                "Message: ", error_msg,
                "This tool is not available or encountered an error.">>]

\* result object returned by call_tool
OkResult(r) == [isError |-> FALSE, text |-> <<r>>]

\* str(tool_result)
Str(tool_result) ==
    IF tool_result.isError
    THEN <<"{'isError': True, 'content': [{'type': 'text', 'text': '">>
         \o tool_result.text \o <<"'}]}">>
    ELSE <<"meta=None content=[">> \o tool_result.text \o <<"] isError=False">>

\* mutant of GetContent: the key is never found and the default is returned
GetContent_AlwaysDefault(m) == EmptyStr

\* messages[-1].get("content", "")
GetContent(m) == IF "content" \in DOMAIN m THEN m.content ELSE EmptyStr

EmptyMetrics == [n \in {} |-> 0]

\* mutant of RecordMetrics: the call record stores the start time as duration
RecordMetrics_StartAsDuration(tm, tool_name, tool_args, tool_duration, start_ts) ==
    LET base == IF tool_name \notin DOMAIN tm
                THEN [n \in DOMAIN tm \cup {tool_name} |->
                        IF n = tool_name
                        THEN [count |-> 0, durations |-> <<>>, calls |-> <<>>]
                        ELSE tm[n]]
                ELSE tm
    IN [base EXCEPT
          ![tool_name] =
              [count |-> @.count + 1,
               durations |-> Append(@.durations, tool_duration),
               calls |-> Append(@.calls, [args |-> tool_args,
                                          duration |-> start_ts,
                                          timestamp |-> start_ts])]]

\* mutant of RecordMetrics: count is set to 1 and not incremented
RecordMetrics_CountOnce(tm, tool_name, tool_args, tool_duration, start_ts) ==
    LET base == IF tool_name \notin DOMAIN tm
                THEN [n \in DOMAIN tm \cup {tool_name} |->
                        IF n = tool_name
                        THEN [count |-> 0, durations |-> <<>>, calls |-> <<>>]
                        ELSE tm[n]]
                ELSE tm
    IN [base EXCEPT
          ![tool_name] =
              [count |-> 1,
               durations |-> Append(@.durations, tool_duration),
               calls |-> Append(@.calls, [args |-> tool_args,
                                          duration |-> tool_duration,
                                          timestamp |-> start_ts])]]

\* the "Update tool metrics" block
RecordMetrics(tm, tool_name, tool_args, tool_duration, start_ts) ==
    LET base == IF tool_name \notin DOMAIN tm
                THEN [n \in DOMAIN tm \cup {tool_name} |->
                        IF n = tool_name
                        THEN [count |-> 0, durations |-> <<>>, calls |-> <<>>]
                        ELSE tm[n]]
                ELSE tm
    IN [base EXCEPT
          ![tool_name] =
              [count |-> @.count + 1,
               durations |-> Append(@.durations, tool_duration),
               calls |-> Append(@.calls, [args |-> tool_args,
                                          duration |-> tool_duration,
                                          timestamp |-> start_ts])]]

\* the tool message appended for a tool call
ToolMessage(tool_call, tool_result) ==
    [role |-> "tool", tool_call_id |-> tool_call.id, content |-> Str(tool_result)]

\* the assistant message appended for a reply
AssistantMessage(content, tool_calls) ==
    [role |-> "assistant", content |-> content, tool_calls |-> tool_calls]

\* ------------------------------------------------------------------------
\* State
\* ------------------------------------------------------------------------
VARIABLES
    max_iterations,  \* self.max_iterations
    pc,              \* position of run: "init", "loop", "await_model",
                     \* "dispatch", "await_tool", "DONE", "EXHAUSTED", "ERROR"
    messages,        \* the transcript
    tool_metrics,    \* tool name -> [count, durations, calls]
    iteration,       \* the iteration counter
    message,         \* the reply being processed
    k,               \* index of the tool call being processed
    tool_args,       \* deserialized arguments of the current tool call
    tool_start_ts,   \* time.time() before the current tool call
    clock,           \* the wall clock
    ret_text,        \* first component of the value run returned
    ret_metrics,     \* second component of the value run returned
    next_id,         \* next tool call id the model hands out
    sent,            \* transcripts submitted to chat.completions.create
    invoked,         \* invocations of mcp_session.call_tool, each with its
                     \* outcome: <<"pending">>, <<"returned">> or
                     \* <<"raised", type, message>>
    exc,             \* the exception that left run: <<type, message>>
    hpc,             \* position of run_evaluation: "idle", "for", "task",
                     \* "report"
    tasks,           \* the tasks parsed from the evaluation file
    task_i,          \* index i of the for loop over the tasks
    start_time,      \* start_time of evaluate_single_task
    results,         \* the results list of run_evaluation
    mpc,             \* position of main and of run_evaluation around the
                     \* task loop
    eval_arg,        \* args.eval: None or the name given with --eval
    eval_files,      \* the evaluation files main processes
    file_i,          \* number of files the for loop of main is through with
    successful,      \* counter of main
    failed,          \* counter of main
    mcp_url,         \* os.getenv("MCP_SERVER_URL")
    mcp_session,     \* the global _mcp_session
    mcp_streams,     \* the global _mcp_streams
    agent_session,   \* agent.mcp_session
    session_uses,    \* the sessions list_tools and call_tool were called on
                     \* by get_mcp_tools and upload_file_to_sandbox
    report,          \* how run_evaluation ended: "report" or "raised"
    gpc,             \* node of the LangGraph example graph that runs next
    g_messages,      \* AgentState["messages"]
    g_current_step,  \* AgentState["current_step"]
    g_final_answer,  \* AgentState["final_answer"]
    g_iterations,    \* AgentState["iterations"]
    g_steps          \* steps the graph run has taken

\* the state of run_evaluation and evaluate_single_task
hvars == <<hpc, tasks, task_i, start_time, results>>

\* the state of main and of the global MCP session
mvars == <<mpc, eval_arg, eval_files, file_i, successful, failed, mcp_url,
           mcp_session, mcp_streams, agent_session, session_uses, report>>

\* the state of the LangGraph example
gvars == <<gpc, g_messages, g_current_step, g_final_answer, g_iterations, g_steps>>

\* what run and the task loop do not touch
ovars == <<mvars, gvars>>

vars == <<max_iterations, pc, messages, tool_metrics, iteration, message, k,
          tool_args, tool_start_ts, clock, ret_text, ret_metrics, next_id,
          sent, invoked, exc, hvars, ovars>>

\* main has not started
MainIdle ==
    /\ mpc = "idle"
    /\ eval_arg = None
    /\ eval_files = <<>>
    /\ file_i = 0
    /\ successful = 0
    /\ failed = 0
    /\ mcp_url = "None"
    /\ mcp_session = "None"
    /\ mcp_streams = "None"
    /\ agent_session = "None"
    /\ session_uses = {}
    /\ report = "None"

\* no graph run has started
GraphIdle ==
    /\ gpc = "idle"
    /\ g_messages = <<>>
    /\ g_current_step = "understand"
    /\ g_final_answer = EmptyStr
    /\ g_iterations = 0
    /\ g_steps = 0

NoExc == <<>>

NoMessage == AssistantMessage(None, <<>>)

NoArgs == [type |-> "unset", json |-> ""]

\* state after AzureOpenAIAgentLoop.__init__
Init ==
    /\ max_iterations \in 0..MaxIter
    /\ pc = "init"
    /\ messages = <<>>
    /\ tool_metrics = EmptyMetrics
    /\ iteration = 0
    /\ message = NoMessage
    /\ k = 0
    /\ tool_args = NoArgs
    /\ tool_start_ts = 0
    /\ clock = 0
    /\ ret_text = EmptyStr
    /\ ret_metrics = EmptyMetrics
    /\ next_id = 1
    /\ sent = <<>>
    /\ invoked = <<>>
    /\ exc = NoExc
    /\ hpc = "idle"
    /\ tasks = <<>>
    /\ task_i = 0
    /\ start_time = 0
    /\ results = <<>>
    /\ MainIdle
    /\ GraphIdle

\* mutant of Run: the transcript and the metrics are kept on the agent and a
\* later run goes on with them
Run_KeepsState(prompt) ==
    /\ pc = "init"
    /\ messages' = IF messages = <<>>
                   THEN <<[role |-> "system", content |-> SystemPrompt],
                          [role |-> "user", content |-> prompt]>>
                   ELSE Append(messages, [role |-> "user", content |-> prompt])
    /\ tool_metrics' = tool_metrics
    /\ iteration' = 0
    /\ pc' = "loop"
    /\ UNCHANGED <<ovars, hvars, exc, max_iterations, message, k, tool_args, tool_start_ts, clock,
                   ret_text, ret_metrics, next_id, sent, invoked>>

\* ------------------------------------------------------------------------
\* Steps of run
\* ------------------------------------------------------------------------
\* entry of run: the transcript is seeded, metrics and counter are reset
Run(prompt) ==
    /\ pc = "init"
    /\ messages' = <<[role |-> "system", content |-> SystemPrompt],
                     [role |-> "user", content |-> prompt]>>
    /\ tool_metrics' = EmptyMetrics
    /\ iteration' = 0
    /\ pc' = "loop"
    /\ UNCHANGED <<ovars, hvars, exc, max_iterations, message, k, tool_args, tool_start_ts, clock,
                   ret_text, ret_metrics, next_id, sent, invoked>>

\* mutant of CallModel: the while test is iteration <= max_iterations
CallModel_OffByOne ==
    /\ pc = "loop"
    /\ iteration <= max_iterations
    /\ iteration' = iteration + 1
    /\ sent' = Append(sent, messages)
    /\ pc' = "await_model"
    /\ UNCHANGED <<ovars, hvars, exc, max_iterations, messages, tool_metrics, message, k,
                   tool_args, tool_start_ts, clock, ret_text, ret_metrics,
                   next_id, invoked>>

\* mutant of CallModel: only the latest message is submitted to the model
CallModel_LastMessageOnly ==
    /\ pc = "loop"
    /\ iteration < max_iterations
    /\ iteration' = iteration + 1
    /\ sent' = Append(sent, <<Last(messages)>>)
    /\ pc' = "await_model"
    /\ UNCHANGED <<ovars, hvars, exc, max_iterations, messages, tool_metrics, message, k,
                   tool_args, tool_start_ts, clock, ret_text, ret_metrics,
                   next_id, invoked>>

\* while test true: the counter is incremented and the model is called
CallModel ==
    /\ pc = "loop"
    /\ iteration < max_iterations
    /\ iteration' = iteration + 1
    /\ sent' = Append(sent, messages)
    /\ pc' = "await_model"
    /\ UNCHANGED <<ovars, hvars, exc, max_iterations, messages, tool_metrics, message, k,
                   tool_args, tool_start_ts, clock, ret_text, ret_metrics,
                   next_id, invoked>>

\* mutant of Exhaust: with the budget used up the loop neither returns nor
\* goes on
Exhaust_Spins ==
    /\ pc = "loop"
    /\ ~(iteration < max_iterations)
    /\ UNCHANGED <<ovars, hvars, exc, pc, max_iterations, messages, tool_metrics, iteration, message,
                   k, tool_args, tool_start_ts, clock, ret_text, ret_metrics,
                   next_id, sent, invoked>>

\* while test false: "If we hit max iterations, return what we have"
Exhaust ==
    /\ pc = "loop"
    /\ ~(iteration < max_iterations)
    /\ ret_text' = GetContent(Last(messages))
    /\ ret_metrics' = tool_metrics
    /\ pc' = "EXHAUSTED"
    /\ UNCHANGED <<ovars, hvars, exc, max_iterations, messages, tool_metrics, iteration, message,
                   k, tool_args, tool_start_ts, clock, next_id, sent, invoked>>

\* chat.completions.create raises: the exception leaves run
ModelRaise ==
    /\ pc = "await_model"
    /\ pc' = "ERROR"
    /\ exc' = <<"APIError", "model call failed">>
    /\ UNCHANGED <<ovars, hvars, max_iterations, messages, tool_metrics, iteration, message,
                   k, tool_args, tool_start_ts, clock, ret_text, ret_metrics,
                   next_id, sent, invoked>>

\* tool calls of a reply: the model gives each a fresh id
WithIds(specs, first) ==
    [i \in 1..Len(specs) |->
        [id |-> first + i - 1, name |-> specs[i].name,
         arguments |-> specs[i].arguments]]

\* mutant of FinalReply: a tag retry gives its iteration back to the budget
FinalReply_OwnRetryBudget(content) ==
    /\ pc = "await_model"
    /\ LET msg == AssistantMessage(content, <<>>)
           final_content == OrEmpty(content)
           missing_tags == MissingTags(final_content)
       IN /\ message' = msg
          /\ IF missing_tags # <<>>
             THEN /\ messages' = Append(Append(messages, msg),
                                        [role |-> "user",
                                         content |-> RetryContent(missing_tags)])
                  /\ iteration' = iteration - 1
                  /\ pc' = "loop"
                  /\ UNCHANGED <<ret_text, ret_metrics>>
             ELSE /\ messages' = Append(messages, msg)
                  /\ iteration' = iteration
                  /\ ret_text' = final_content
                  /\ ret_metrics' = tool_metrics
                  /\ pc' = "DONE"
    /\ UNCHANGED <<ovars, hvars, exc, max_iterations, tool_metrics, k, tool_args,
                   tool_start_ts, clock, next_id, sent, invoked>>

\* mutant of FinalReply: the continue is missing and the reply is returned
\* even when the retry message was appended
FinalReply_NoContinue(content) ==
    /\ pc = "await_model"
    /\ LET msg == AssistantMessage(content, <<>>)
           final_content == OrEmpty(content)
           missing_tags == MissingTags(final_content)
       IN /\ message' = msg
          /\ messages' = IF missing_tags # <<>>
                         THEN Append(Append(messages, msg),
                                     [role |-> "user",
                                      content |-> RetryContent(missing_tags)])
                         ELSE Append(messages, msg)
          /\ ret_text' = final_content
          /\ ret_metrics' = tool_metrics
          /\ pc' = "DONE"
    /\ UNCHANGED <<ovars, hvars, exc, max_iterations, tool_metrics, iteration, k, tool_args,
                   tool_start_ts, clock, next_id, sent, invoked>>

\* mutant of FinalReply: the metrics are cleared when the tags are missing
FinalReply_ClearsMetrics(content) ==
    /\ pc = "await_model"
    /\ LET msg == AssistantMessage(content, <<>>)
           final_content == OrEmpty(content)
           missing_tags == MissingTags(final_content)
       IN /\ message' = msg
          /\ IF missing_tags # <<>>
             THEN /\ messages' = Append(Append(messages, msg),
                                        [role |-> "user",
                                         content |-> RetryContent(missing_tags)])
                  /\ pc' = "loop"
                  /\ tool_metrics' = EmptyMetrics
                  /\ UNCHANGED <<ret_text, ret_metrics>>
             ELSE /\ messages' = Append(messages, msg)
                  /\ ret_text' = final_content
                  /\ ret_metrics' = tool_metrics
                  /\ pc' = "DONE"
                  /\ tool_metrics' = tool_metrics
    /\ UNCHANGED <<ovars, hvars, exc, max_iterations, iteration, k, tool_args,
                   tool_start_ts, clock, next_id, sent, invoked>>

\* the model replies without tool calls: tag validation
FinalReply(content) ==
    /\ pc = "await_model"
    /\ LET msg == AssistantMessage(content, <<>>)
           final_content == OrEmpty(content)
           missing_tags == MissingTags(final_content)
       IN /\ message' = msg
          /\ IF missing_tags # <<>>
             THEN /\ messages' = Append(Append(messages, msg),
                                        [role |-> "user",
                                         content |-> RetryContent(missing_tags)])
                  /\ pc' = "loop"
                  /\ UNCHANGED <<ret_text, ret_metrics>>
             ELSE /\ messages' = Append(messages, msg)
                  /\ ret_text' = final_content
                  /\ ret_metrics' = tool_metrics
                  /\ pc' = "DONE"
    /\ UNCHANGED <<ovars, hvars, exc, max_iterations, tool_metrics, iteration, k, tool_args,
                   tool_start_ts, clock, next_id, sent, invoked>>

\* mutant of ToolReply: the assistant message is not appended
ToolReply_NotAppended(content, specs) ==
    /\ pc = "await_model"
    /\ specs # <<>>
    /\ next_id - 1 + Len(specs) <= MaxToolCalls
    /\ message' = AssistantMessage(content, WithIds(specs, next_id))
    /\ next_id' = next_id + Len(specs)
    /\ k' = 1
    /\ pc' = "dispatch"
    /\ UNCHANGED <<ovars, hvars, exc, max_iterations, messages, tool_metrics, iteration, tool_args,
                   tool_start_ts, clock, ret_text, ret_metrics, sent, invoked>>

\* mutant of ToolReply: only the last tool call of the reply is processed
ToolReply_LastCallOnly(content, specs) ==
    /\ pc = "await_model"
    /\ specs # <<>>
    /\ next_id - 1 + Len(specs) <= MaxToolCalls
    /\ LET msg == AssistantMessage(content, WithIds(specs, next_id))
       IN /\ message' = msg
          /\ messages' = Append(messages, msg)
    /\ next_id' = next_id + Len(specs)
    /\ k' = Len(specs)
    /\ pc' = "dispatch"
    /\ UNCHANGED <<ovars, hvars, exc, max_iterations, tool_metrics, iteration, tool_args,
                   tool_start_ts, clock, ret_text, ret_metrics, sent, invoked>>

\* the model replies with tool calls: the for loop starts
ToolReply(content, specs) ==
    /\ pc = "await_model"
    /\ specs # <<>>
    /\ next_id - 1 + Len(specs) <= MaxToolCalls
    /\ LET msg == AssistantMessage(content, WithIds(specs, next_id))
       IN /\ message' = msg
          /\ messages' = Append(messages, msg)
    /\ next_id' = next_id + Len(specs)
    /\ k' = 1
    /\ pc' = "dispatch"
    /\ UNCHANGED <<ovars, hvars, exc, max_iterations, tool_metrics, iteration, tool_args,
                   tool_start_ts, clock, ret_text, ret_metrics, sent, invoked>>

\* mutant of ArgsError: the exception is swallowed and the call is skipped
ArgsError_Skipped ==
    /\ pc = "dispatch"
    /\ ~JsonLoads(message.tool_calls[k].arguments).ok
    /\ IF k < Len(message.tool_calls)
       THEN k' = k + 1 /\ pc' = "dispatch"
       ELSE k' = k /\ pc' = "loop"
    /\ UNCHANGED <<ovars, hvars, exc, max_iterations, messages, tool_metrics, iteration, message,
                   tool_args, tool_start_ts, clock, ret_text, ret_metrics,
                   next_id, sent, invoked>>

\* mutant of ArgsError: the metrics recorded so far are handed back with the
\* error
ArgsError_ReturnsMetrics ==
    /\ pc = "dispatch"
    /\ ~JsonLoads(message.tool_calls[k].arguments).ok
    /\ pc' = "ERROR"
    /\ exc' = <<"JSONDecodeError", message.tool_calls[k].arguments>>
    /\ ret_metrics' = tool_metrics
    /\ UNCHANGED <<ovars, hvars, max_iterations, messages, tool_metrics, iteration, message,
                   k, tool_args, tool_start_ts, clock, ret_text,
                   next_id, sent, invoked>>

\* json.loads of the arguments fails: the JSONDecodeError is re-raised
ArgsError ==
    /\ pc = "dispatch"
    /\ ~JsonLoads(message.tool_calls[k].arguments).ok
    /\ pc' = "ERROR"
    /\ exc' = <<"JSONDecodeError", message.tool_calls[k].arguments>>
    /\ UNCHANGED <<ovars, hvars, max_iterations, messages, tool_metrics, iteration, message,
                   k, tool_args, tool_start_ts, clock, ret_text, ret_metrics,
                   next_id, sent, invoked>>

\* the arguments deserialize: the clock is read and call_tool is awaited
CallTool ==
    /\ pc = "dispatch"
    /\ LET tool_call == message.tool_calls[k]
           parsed == JsonLoads(tool_call.arguments)
       IN /\ parsed.ok
          /\ tool_args' = parsed.value
          /\ tool_start_ts' = clock
          /\ invoked' = Append(invoked, [id |-> tool_call.id,
                                         name |-> tool_call.name,
                                         args |-> parsed.value,
                                         outcome |-> <<"pending">>])
    /\ pc' = "await_tool"
    /\ UNCHANGED <<ovars, hvars, exc, max_iterations, messages, tool_metrics, iteration, message,
                   k, clock, ret_text, ret_metrics, next_id, sent>>

\* mutant of Finish: the tool message carries the id of the turn's first call
Finish_FirstCallId(tool_result, now, outcome) ==
    LET tool_call == message.tool_calls[k]
        tool_duration == now - tool_start_ts
    IN /\ clock' = now
       /\ tool_metrics' = RecordMetrics(tool_metrics, tool_call.name, tool_args,
                                        tool_duration, tool_start_ts)
       /\ messages' = Append(messages,
                             ToolMessage(message.tool_calls[1], tool_result))
       /\ invoked' = [invoked EXCEPT ![Len(invoked)].outcome = outcome]
       /\ IF k < Len(message.tool_calls)
          THEN k' = k + 1 /\ pc' = "dispatch"
          ELSE k' = k /\ pc' = "loop"
       /\ UNCHANGED <<ovars, hvars, exc, max_iterations, iteration, message, tool_args,
                      tool_start_ts, ret_text, ret_metrics, next_id, sent>>

\* mutant of Finish: the metrics are updated only when call_tool returned
Finish_NoMetricsOnError(tool_result, now, outcome) ==
    LET tool_call == message.tool_calls[k]
        tool_duration == now - tool_start_ts
    IN /\ clock' = now
       /\ tool_metrics' = IF outcome[1] = "raised"
                          THEN tool_metrics
                          ELSE RecordMetrics(tool_metrics, tool_call.name,
                                             tool_args, tool_duration,
                                             tool_start_ts)
       /\ messages' = Append(messages, ToolMessage(tool_call, tool_result))
       /\ invoked' = [invoked EXCEPT ![Len(invoked)].outcome = outcome]
       /\ IF k < Len(message.tool_calls)
          THEN k' = k + 1 /\ pc' = "dispatch"
          ELSE k' = k /\ pc' = "loop"
       /\ UNCHANGED <<ovars, hvars, exc, max_iterations, iteration, message, tool_args,
                      tool_start_ts, ret_text, ret_metrics, next_id, sent>>

\* rest of the for body once tool_result and the end time are known
Finish(tool_result, now, outcome) ==
    LET tool_call == message.tool_calls[k]
        tool_duration == now - tool_start_ts
    IN /\ clock' = now
       /\ tool_metrics' = RecordMetrics(tool_metrics, tool_call.name, tool_args,
                                        tool_duration, tool_start_ts)
       /\ messages' = Append(messages, ToolMessage(tool_call, tool_result))
       /\ invoked' = [invoked EXCEPT ![Len(invoked)].outcome = outcome]
       /\ IF k < Len(message.tool_calls)
          THEN k' = k + 1 /\ pc' = "dispatch"
          ELSE k' = k /\ pc' = "loop"
       /\ UNCHANGED <<ovars, hvars, exc, max_iterations, iteration, message, tool_args,
                      tool_start_ts, ret_text, ret_metrics, next_id, sent>>

\* call_tool returns a result
ToolReturn(r, d) ==
    /\ pc = "await_tool"
    /\ Finish(OkResult(r), clock + d, <<"returned">>)

\* mutant of ToolRaise: the exception is not caught and leaves run
ToolRaise_Propagates(error_type, error_msg, d) ==
    /\ pc = "await_tool"
    /\ clock' = clock + d
    /\ invoked' = [invoked EXCEPT
                     ![Len(invoked)].outcome = <<"raised", error_type, error_msg>>]
    /\ pc' = "ERROR"
    /\ exc' = <<error_type, error_msg>>
    /\ UNCHANGED <<ovars, hvars, max_iterations, messages, tool_metrics, iteration, message,
                   k, tool_args, tool_start_ts, ret_text, ret_metrics, next_id,
                   sent>>

\* call_tool raises an Exception: it is turned into an error result
ToolRaise(error_type, error_msg, d) ==
    /\ pc = "await_tool"
    /\ Finish(ErrorResult(error_type, error_msg), clock + d,
              <<"raised", error_type, error_msg>>)

Next ==
    \/ \E prompt \in Prompts : Run(prompt)
    \/ CallModel
    \/ Exhaust
    \/ ModelRaise
    \/ \E content \in Contents : FinalReply(content)
    \/ \E content \in ToolTurnContents, specs \in SeqsUpTo(ToolCallSpecs, MaxToolCalls) :
          ToolReply(content, specs)
    \/ ArgsError
    \/ CallTool
    \/ \E r \in ToolResults, d \in Ticks : ToolReturn(r, d)
    \/ \E t \in ErrorTypes, m \in ErrorMsgs, d \in Ticks : ToolRaise(t, m, d)

Spec == Init /\ [][Next]_vars

\* a run in which every step that can be taken is taken in the end: run is
\* called, the statements of run execute, and every awaited model call and
\* tool call returns or raises
FairSpec == Init /\ [][Next]_vars /\ WF_vars(Next)

TypeOK ==
    /\ max_iterations \in 0..MaxIter
    /\ pc \in {"init", "loop", "await_model", "dispatch", "await_tool",
               "DONE", "EXHAUSTED", "ERROR"}
    /\ iteration \in 0..MaxIter
    /\ DOMAIN tool_metrics \subseteq ToolNames

\* ------------------------------------------------------------------------
\* Observations used by the properties
\* ------------------------------------------------------------------------
Terminal == {"DONE", "EXHAUSTED", "ERROR"}

IsAssistant(m) == m.role = "assistant"

\* the assistant messages of a transcript that carry tool calls
ToolTurns(tr) == {i \in 1..Len(tr) : IsAssistant(tr[i]) /\ tr[i].tool_calls # <<>>}

\* index of the latest assistant message of a transcript, 0 when none
LastAssistant(tr) ==
    IF \E i \in 1..Len(tr) : IsAssistant(tr[i])
    THEN CHOOSE i \in 1..Len(tr) :
            IsAssistant(tr[i]) /\ \A j \in (i + 1)..Len(tr) : ~IsAssistant(tr[j])
    ELSE 0

NoArgsError(tcs) == \A j \in 1..Len(tcs) : JsonLoads(tcs[j].arguments).ok

\* the n messages after tr[i] are the tool messages of its n tool calls
Answered(tr, i) ==
    LET tcs == tr[i].tool_calls
    IN /\ i + Len(tcs) <= Len(tr)
       /\ \A j \in 1..Len(tcs) :
             /\ tr[i + j].role = "tool"
             /\ tr[i + j].tool_call_id = tcs[j].id

CountOf(tm, n) == IF n \in DOMAIN tm THEN tm[n].count ELSE 0

DurationsOf(tm, n) == IF n \in DOMAIN tm THEN tm[n].durations ELSE <<>>

CallsOf(tm, n) == IF n \in DOMAIN tm THEN tm[n].calls ELSE <<>>

\* number of call_tool invocations of a tool that have finished
Finished(n) ==
    Cardinality({j \in 1..Len(invoked) :
                    invoked[j].name = n /\ invoked[j].outcome # <<"pending">>})

HasAllTags(content) == \A t \in RequiredTags : Contains(OrEmpty(content), t)

\* a tool-call-free assistant message with all three tags
TagValid(m) == IsAssistant(m) /\ m.tool_calls = <<>> /\ HasAllTags(m.content)

\* ------------------------------------------------------------------------
\* Properties
\* ------------------------------------------------------------------------
\* C1: every assistant message with tool calls c1..cn whose turn had no
\* argument-deserialization error and is over is followed by exactly the n
\* tool messages with ids c1.id..cn.id in that order, and every transcript
\* submitted to the model already holds them.
C1_ToolMessagesInOrder ==
    /\ \A i \in ToolTurns(messages) :
          (/\ NoArgsError(messages[i].tool_calls)
           /\ (pc \in {"dispatch", "await_tool"} => i # LastAssistant(messages)))
          => Answered(messages, i)
    /\ \A x \in 1..Len(sent) : \A i \in ToolTurns(sent[x]) : Answered(sent[x], i)

\* C1 witness: the model was called again after a turn of two tool calls
C1_Witness ==
    \E x \in 1..Len(sent) : \E i \in ToolTurns(sent[x]) :
        Len(sent[x][i].tool_calls) = 2

\* C2: for every recorded tool, len(durations) = len(calls) = count and
\* calls[i].duration = durations[i] for every i.
C2_MetricsConsistent ==
    \A n \in DOMAIN tool_metrics :
        LET m == tool_metrics[n]
        IN /\ Len(m.durations) = Len(m.calls)
           /\ Len(m.calls) = m.count
           /\ \A i \in 1..Len(m.calls) : m.calls[i].duration = m.durations[i]

\* C2 witness: one tool recorded twice, with two different durations
C2_Witness ==
    \E n \in DOMAIN tool_metrics :
        /\ tool_metrics[n].count = 2
        /\ tool_metrics[n].durations[1] # tool_metrics[n].durations[2]

\* C3: the model is never called more than max_iterations times, and a run
\* that ends without a fatal error and without a tool-call-free reply holding
\* all three tags ends EXHAUSTED after exactly max_iterations model calls.
C3_ExhaustedAfterMaxIterations ==
    /\ Len(sent) <= max_iterations
    /\ (/\ pc \in {"DONE", "EXHAUSTED"}
        /\ \A i \in 1..Len(messages) : ~TagValid(messages[i]))
       => (pc = "EXHAUSTED" /\ Len(sent) = max_iterations
           /\ iteration = max_iterations)

\* C3 witness: exhausted after a round of tool calls and a round of tag-less text
C3_Witness ==
    /\ pc = "EXHAUSTED"
    /\ max_iterations = 2
    /\ ToolTurns(messages) # {}
    /\ \E i \in 1..Len(messages) :
          IsAssistant(messages[i]) /\ messages[i].tool_calls = <<>>

\* C4: a call_tool that raises does not end the run: a tool message with the
\* call's id and the synthetic error result is appended, and the tool's
\* count, durations and calls each grow by one.
C4_ToolErrorContained ==
    [][(pc = "await_tool" /\ Last(invoked').outcome[1] = "raised")
       => LET call == Last(invoked')
              msg == Last(messages')
          IN /\ pc' \in {"dispatch", "loop"}
             /\ Len(messages') = Len(messages) + 1
             /\ SubSeq(messages', 1, Len(messages)) = messages
             /\ msg.role = "tool"
             /\ msg.tool_call_id = call.id
             /\ msg.content[1] = "{'isError': True, 'content': [{'type': 'text', 'text': '"
             /\ SubSeq(msg.content, 2, 6) =
                   <<"ERROR: Tool execution failed", "Type: ", call.outcome[2],
                     "Message: ", call.outcome[3]>>
             /\ CountOf(tool_metrics', call.name) = CountOf(tool_metrics, call.name) + 1
             /\ Len(DurationsOf(tool_metrics', call.name))
                   = Len(DurationsOf(tool_metrics, call.name)) + 1
             /\ Len(CallsOf(tool_metrics', call.name))
                   = Len(CallsOf(tool_metrics, call.name)) + 1]_vars

\* C4 witness: the run went on to DONE after a tool invocation raised
C4_Witness ==
    /\ pc = "DONE"
    /\ \E j \in 1..Len(invoked) : invoked[j].outcome[1] = "raised"

\* C5: a tool call whose arguments do not deserialize ends the run with the
\* error: no tool message, no invocation, no metrics for it, and nothing
\* happens after the error, so no further model call.
C5_BadArgumentsFatal ==
    [][/\ (pc = "dispatch" /\ ~JsonLoads(message.tool_calls[k].arguments).ok)
          => (/\ pc' = "ERROR"
              /\ messages' = messages
              /\ invoked' = invoked
              /\ tool_metrics' = tool_metrics
              /\ sent' = sent)
       /\ pc # "ERROR"]_vars

\* C5 witness: the second call of a turn had bad arguments, after the first
\* one was answered
C5_Witness ==
    /\ pc = "ERROR"
    /\ k = 2
    /\ Len(message.tool_calls) = 2
    /\ ~JsonLoads(message.tool_calls[2].arguments).ok
    /\ Last(messages).role = "tool"
    /\ Last(messages).tool_call_id = message.tool_calls[1].id

C7_ExhaustedReturnsLastReply ==
    (/\ pc = "EXHAUSTED"
     /\ max_iterations >= 1
     /\ ToolTurns(messages) = {})
    => (/\ Len(sent) = max_iterations
        /\ ret_text = messages[LastAssistant(messages)].content)

\* index of the first assistant message after tr[i], Len(tr) + 1 when none
NextAssistant(tr, i) ==
    IF \E j \in (i + 1)..Len(tr) : IsAssistant(tr[j])
    THEN CHOOSE j \in (i + 1)..Len(tr) :
            IsAssistant(tr[j]) /\ \A h \in (i + 1)..(j - 1) : ~IsAssistant(tr[h])
    ELSE Len(tr) + 1

\* the messages between tr[i] and the next assistant message
Between(tr, i) == SubSeq(tr, i + 1, NextAssistant(tr, i) - 1)

\* seq holds the tool messages of the first Len(seq) calls of tcs, in order
IsToolRun(seq, tcs) ==
    /\ Len(seq) <= Len(tcs)
    /\ \A j \in 1..Len(seq) :
          seq[j].role = "tool" /\ seq[j].tool_call_id = tcs[j].id

\* tr[i] is followed by one tool message per tool call before the next
\* assistant message; the latest assistant message by those appended so far
ToolMessagesFollow(tr, i) ==
    /\ IsToolRun(Between(tr, i), tr[i].tool_calls)
    /\ NextAssistant(tr, i) <= Len(tr)
          => Len(Between(tr, i)) = Len(tr[i].tool_calls)

\* tr[i] has no tool calls, lacks a required tag and is followed by exactly
\* one synthetic user message
RetryFollows(tr, i) ==
    /\ tr[i].tool_calls = <<>>
    /\ ~HasAllTags(tr[i].content)
    /\ Len(Between(tr, i)) = 1
    /\ Between(tr, i)[1].role = "user"

StartsWithSystemUser(tr) ==
    /\ Len(tr) >= 2
    /\ tr[1].role = "system"
    /\ tr[2].role = "user"
    /\ Len(tr) >= 3 => IsAssistant(tr[3])
    /\ \A i \in 2..Len(tr) : tr[i].role # "system"

\* C8 as claimed: the transcript is system, user, and then only assistant and
\* tool messages, each assistant message followed by one tool message per tool
\* call before the next assistant message.
C8_OnlyAssistantAndToolFollow ==
    pc # "init"
    => /\ StartsWithSystemUser(messages)
       /\ \A i \in 3..Len(messages) : messages[i].role \in {"assistant", "tool"}
       /\ \A i \in 3..Len(messages) :
             IsAssistant(messages[i]) => ToolMessagesFollow(messages, i)

\* C8 amended: the transcript is system, user, and then assistant, tool and
\* synthetic user messages; each assistant message is followed, before the
\* next assistant message, either by one tool message per tool call, or, when
\* it has no tool calls and lacks a required tag, by one synthetic user message.
C8_TranscriptShape ==
    pc # "init"
    => /\ StartsWithSystemUser(messages)
       /\ \A i \in 3..Len(messages) :
             messages[i].role \in {"assistant", "tool", "user"}
       /\ \A i \in 3..Len(messages) :
             IsAssistant(messages[i])
             => (ToolMessagesFollow(messages, i) \/ RetryFollows(messages, i))

\* C8 witness: a retry message and a turn of two answered tool calls
C8_Witness ==
    /\ \E i \in 3..Len(messages) : messages[i].role = "user"
    /\ \E i \in ToolTurns(messages) :
          Len(messages[i].tool_calls) = 2 /\ Answered(messages, i)

\* C9: during a run every step leaves the previous transcript as a prefix of
\* the next one, and each model call is given the whole transcript.
C9_AppendOnly ==
    [][pc # "init"
       => /\ IsPrefix(messages, messages')
          /\ Len(sent') # Len(sent)
                => (sent' = Append(sent, messages) /\ messages' = messages)]_vars

\* C9 witness: the second model call was given a transcript of four or more
\* messages
C9_Witness == Len(sent) = 2 /\ Len(sent[2]) >= 4

\* C10: run is in the DONE outcome exactly when the latest assistant message
\* has no tool calls and holds all three tags; the text returned is that
\* message's content and the metrics returned are those of all dispatches.
C10_DoneIffTagValid ==
    /\ pc = "DONE"
          <=> (LastAssistant(messages) # 0
               /\ TagValid(messages[LastAssistant(messages)]))
    /\ pc = "DONE"
          => /\ LastAssistant(messages) = Len(messages)
             /\ ret_text = Last(messages).content
             /\ ret_metrics = tool_metrics
             /\ \A n \in ToolNames :
                   /\ CountOf(ret_metrics, n) = Finished(n)
                   /\ Finished(n) =
                         Cardinality({j \in 1..Len(invoked) : invoked[j].name = n})

\* C10 witness: DONE after a tool-call turn whose content already held all
\* three tags
C10_Witness ==
    /\ pc = "DONE"
    /\ DOMAIN ret_metrics # {}
    /\ \E i \in ToolTurns(messages) : HasAllTags(messages[i].content)

\* closing tag of an opening tag
CloseTag(open) ==
    CASE open = "<response>" -> "</response>"
      [] open = "<summary>"  -> "</summary>"
      [] open = "<feedback>" -> "</feedback>"

\* the complete regions <tag>...</tag> of a text, as pairs of positions
Regions(text, open) ==
    {p \in (1..Len(text)) \X (1..Len(text)) :
        p[1] < p[2] /\ text[p[1]] = open /\ text[p[2]] = CloseTag(open)}

DisjointRegions(p, q) == p[2] < q[1] \/ q[2] < p[1]

\* the text holds three non-overlapping complete regions, one per tag
HasThreeRegions(text) ==
    \E a \in Regions(text, "<summary>"), b \in Regions(text, "<feedback>"),
       c \in Regions(text, "<response>") :
        DisjointRegions(a, b) /\ DisjointRegions(a, c) /\ DisjointRegions(b, c)

\* C11: every message accepted as terminal holds three non-overlapping
\* complete regions, one per required tag, and a tool-call-free assistant
\* message lacking one of them is followed by the retry message.
C11_TerminalHasCompleteRegions ==
    /\ pc = "DONE" => HasThreeRegions(OrEmpty(Last(messages).content))
    /\ \A i \in 3..Len(messages) :
          (/\ IsAssistant(messages[i])
           /\ messages[i].tool_calls = <<>>
           /\ ~HasThreeRegions(OrEmpty(messages[i].content)))
          => (i < Len(messages) /\ messages[i + 1].role = "user")

\* the tags a retry message lists as missing
TagsListed(content) == {content[i] : i \in 2..(Len(content) - 1)}

\* the required tags absent from the content of a reply
TagsAbsent(content) == {t \in RequiredTags : ~Contains(OrEmpty(content), t)}

\* C12: when a tool-call-free reply lacks a required tag, the step appends
\* the reply and exactly one synthetic user message that lists exactly the
\* absent tags, and run goes back to the head of the loop.
C12_RetryListsMissingTags ==
    [][(/\ pc = "await_model"
        /\ Len(messages') > Len(messages)
        /\ messages'[Len(messages) + 1].tool_calls = <<>>
        /\ TagsAbsent(messages'[Len(messages) + 1].content) # {})
       => LET reply == messages'[Len(messages) + 1]
              retry == Last(messages')
          IN /\ Len(messages') = Len(messages) + 2
             /\ SubSeq(messages', 1, Len(messages)) = messages
             /\ retry.role = "user"
             /\ retry.content[1] = "ERROR: Your response is missing required tags: "
             /\ TagsListed(retry.content) = TagsAbsent(reply.content)
             /\ Len(retry.content) - 2 = Cardinality(TagsAbsent(reply.content))
             /\ pc' = "loop"
             /\ iteration' = iteration]_vars

\* C12 witness: a retry message that lists the feedback tag only
C12_Witness ==
    \E i \in 4..Len(messages) :
        /\ messages[i].role = "user"
        /\ TagsListed(messages[i].content) = {"<feedback>"}
        /\ TagsAbsent(messages[i - 1].content) = {"<feedback>"}

\* rounds that ended in a tool dispatch
ToolRounds == Cardinality(ToolTurns(messages))

\* rounds that ended in a tag retry
RetryRounds == Cardinality({i \in 3..Len(messages) : messages[i].role = "user"})

\* the round that ended with the final answer
FinalRounds == IF pc = "DONE" THEN 1 ELSE 0

\* C13: every chat-completion call consumes one iteration of the single
\* budget: tool rounds, retry rounds and the final round together never
\* exceed the number of model calls, which never exceeds max_iterations.
C13_SharedBudget ==
    /\ Len(sent) = iteration
    /\ iteration <= max_iterations
    /\ ToolRounds + RetryRounds + FinalRounds <= Len(sent)
    /\ pc \in {"loop", "DONE", "EXHAUSTED"}
          => ToolRounds + RetryRounds + FinalRounds = Len(sent)

\* C13 witness: the budget of two was used by a tag retry and then a tool round
C13_Witness ==
    /\ pc = "EXHAUSTED"
    /\ max_iterations = 2
    /\ messages[4].role = "user"
    /\ ToolRounds = 1

\* number of replies the model has given
Replies == Cardinality({i \in 1..Len(messages) : IsAssistant(messages[i])})

\* C14: as soon as a reply has no tool calls and holds all three tags run is
\* DONE; it is then the k-th and latest reply, the first such one, k model
\* calls were made, k <= max_iterations, and its content is returned.
C14_DoneAtFirstValidReply ==
    /\ (\E i \in 1..Len(messages) : TagValid(messages[i])) => pc = "DONE"
    /\ pc = "DONE"
          => /\ TagValid(Last(messages))
             /\ \A i \in 1..(Len(messages) - 1) : ~TagValid(messages[i])
             /\ Len(sent) = Replies
             /\ Replies <= max_iterations
             /\ ret_text = Last(messages).content

\* C14 witness: a tag-less first reply, the retry message naming the three
\* tags, and a fully tagged second reply
C14_Witness ==
    /\ pc = "DONE"
    /\ Len(sent) = 2
    /\ Len(messages) = 5
    /\ IsAssistant(messages[3])
    /\ TagsAbsent(messages[3].content) = RequiredTags
    /\ messages[4].role = "user"
    /\ TagsListed(messages[4].content) = RequiredTags
    /\ ret_text = FullContent

\* number of call_tool invocations of a tool
Dispatches(n) == Cardinality({j \in 1..Len(invoked) : invoked[j].name = n})

RECURSIVE SumCounts(_, _)
\* sum of the counts of the entries of tm for the names in S
SumCounts(tm, S) ==
    IF S = {} THEN 0
    ELSE LET n == CHOOSE x \in S : TRUE
         IN tm[n].count + SumCounts(tm, S \ {n})

ToolMessages == {i \in 1..Len(messages) : messages[i].role = "tool"}

\* C15: the metrics run returns have an entry for a tool exactly when the
\* tool was dispatched, with count the number of its dispatches, returned or
\* raised; they are empty when no tool was requested, and the counts sum to
\* the number of tool messages in the transcript.
C15_MetricsCountDispatches ==
    pc \in {"DONE", "EXHAUSTED"}
    => /\ DOMAIN ret_metrics \subseteq ToolNames
       /\ \A n \in ToolNames :
             /\ n \in DOMAIN ret_metrics <=> Dispatches(n) >= 1
             /\ CountOf(ret_metrics, n) = Dispatches(n)
       /\ ToolTurns(messages) = {} => ret_metrics = EmptyMetrics
       /\ SumCounts(ret_metrics, DOMAIN ret_metrics) = Cardinality(ToolMessages)

\* C15 witness: metrics returned for two tools, one of which raised
C15_Witness ==
    /\ pc \in {"DONE", "EXHAUSTED"}
    /\ DOMAIN ret_metrics = {"calc", "shell"}
    /\ \E j \in 1..Len(invoked) : invoked[j].outcome[1] = "raised"

RECURSIVE CallsIssued(_)
\* the tool calls of the assistant messages of a transcript, in the order
\* the model emitted them
CallsIssued(tr) ==
    IF tr = <<>> THEN <<>>
    ELSE LET m == tr[Len(tr)]
         IN CallsIssued(SubSeq(tr, 1, Len(tr) - 1))
            \o (IF IsAssistant(m) THEN m.tool_calls ELSE <<>>)

\* the call_tool invocations that have not returned or raised yet
Pending == {j \in 1..Len(invoked) : invoked[j].outcome = <<"pending">>}

\* the tool messages of a transcript, in order
ToolMessagesOf(tr) == SelectSeq(tr, LAMBDA m : m.role = "tool")

\* C16: at most one call is outstanding: a tool call is pending only while
\* run awaits it and never while a model call is awaited; tools are invoked
\* in the order the model emitted the calls, and whenever a call has been
\* started every earlier one is recorded in the metrics and answered in the
\* transcript; a model call is outstanding only when every turn is answered.
C16_OneCallAtATime ==
    /\ Cardinality(Pending) <= 1
    /\ Pending # {} <=> pc = "await_tool"
    /\ Pending \subseteq {Len(invoked)}
    /\ Len(invoked) <= Len(CallsIssued(messages))
    /\ \A j \in 1..Len(invoked) : invoked[j].id = CallsIssued(messages)[j].id
    /\ Len(ToolMessagesOf(messages)) = Len(invoked) - Cardinality(Pending)
    /\ \A j \in 1..Len(ToolMessagesOf(messages)) :
          ToolMessagesOf(messages)[j].tool_call_id = invoked[j].id
    /\ \A n \in ToolNames : CountOf(tool_metrics, n) = Finished(n)
    /\ pc = "await_model"
          => \A i \in ToolTurns(messages) : Answered(messages, i)

\* C16 witness: the second call of a turn is awaited after the first one was
\* answered
C16_Witness ==
    /\ pc = "await_tool"
    /\ k = 2
    /\ Len(invoked) = 2
    /\ Last(messages).role = "tool"
    /\ Last(messages).tool_call_id = message.tool_calls[1].id

\* C17: every arguments value passed to call_tool and every one recorded in
\* a call record is a mapping, and a tool call whose arguments text does not
\* deserialize to a mapping is never dispatched.
C17_ArgumentsAreMappings ==
    /\ \A j \in 1..Len(invoked) : invoked[j].args.type = "dict"
    /\ \A n \in DOMAIN tool_metrics :
          \A i \in 1..Len(tool_metrics[n].calls) :
             tool_metrics[n].calls[i].args.type = "dict"
    /\ pc = "await_tool" => JsonLoads(message.tool_calls[k].arguments).value.type = "dict"

\* ------------------------------------------------------------------------
\* evaluate_single_task and the task loop of run_evaluation (main.py)
\* ------------------------------------------------------------------------
\* largest number of tasks of an evaluation file
MaxTasks == 2

\* the j-th task of the evaluation file
Task(j) == [prompt |-> <<"Task", ToString(j)>>, response |-> "4"]

TaskList(n) == [j \in 1..n |-> Task(j)]

Min(S) == CHOOSE x \in S : \A y \in S : x <= y

RECURSIVE FindAll(_, _, _)
\* re.findall(rf"<{tag}>(.*?)</{tag}>", text, re.DOTALL), from a position on:
\* the leftmost opening tag, the first closing tag after it, then the rest
FindAll(text, open, from) ==
    LET opens == {i \in from..Len(text) : text[i] = open}
    IN IF opens = {} THEN <<>>
       ELSE LET i == Min(opens)
                closes == {j \in (i + 1)..Len(text) : text[j] = CloseTag(open)}
            IN IF closes = {} THEN <<>>
               ELSE <<SubSeq(text, i + 1, Min(closes) - 1)>>
                    \o FindAll(text, open, Min(closes) + 1)

RECURSIVE Strip(_)
\* str.strip(): white space is the token " "
Strip(text) ==
    IF text # <<>> /\ text[1] = " " THEN Strip(SubSeq(text, 2, Len(text)))
    ELSE IF text # <<>> /\ text[Len(text)] = " "
    THEN Strip(SubSeq(text, 1, Len(text) - 1))
    ELSE text

\* mutant of ExtractXmlContent: the first match is taken
ExtractXmlContent_First(text, open) ==
    IF text = None \/ text = EmptyStr THEN None
    ELSE LET matches == FindAll(text, open, 1)
         IN IF matches # <<>> THEN Strip(matches[1]) ELSE None

\* _extract_xml_content(text, tag)
ExtractXmlContent(text, open) ==
    IF text = None \/ text = EmptyStr THEN None
    ELSE LET matches == FindAll(text, open, 1)
         IN IF matches # <<>> THEN Strip(Last(matches)) ELSE None

\* re.search(pattern, text, re.DOTALL) for a literal pattern
ReSearch(pattern, text) == Contains(text, pattern)

\* re.compile accepts the pattern: "(" stands for the patterns it rejects
ValidPattern(pattern) == pattern # "("

\* the score of evaluate_single_task
Score(expected, actual_response) ==
    IF actual_response = None \/ actual_response = EmptyStr THEN 0
    ELSE IF ValidPattern(expected)
    THEN (IF ReSearch(expected, actual_response) THEN 1 ELSE 0)
    ELSE (IF actual_response = <<expected>> THEN 1 ELSE 0)

RECURSIVE SumDurations(_, _)
\* sum(len(metrics["durations"]) for metrics in tool_metrics.values())
SumDurations(tm, S) ==
    IF S = {} THEN 0
    ELSE LET n == CHOOSE x \in S : TRUE
         IN Len(tm[n].durations) + SumDurations(tm, S \ {n})

\* the result evaluate_single_task returns when agent.run returned
OkTaskResult(task, response, metrics, now) ==
    LET actual_response == ExtractXmlContent(response, "<response>")
    IN [prompt |-> task.prompt,
        expected |-> task.response,
        actual |-> actual_response,
        score |-> Score(task.response, actual_response),
        total_duration |-> now - start_time,
        tool_calls |-> metrics,
        num_tool_calls |-> SumDurations(metrics, DOMAIN metrics),
        summary |-> ExtractXmlContent(response, "<summary>"),
        feedback |-> ExtractXmlContent(response, "<feedback>")]

\* the result evaluate_single_task returns when agent.run raised
FailedTaskResult(task, e, now) ==
    [prompt |-> task.prompt,
     expected |-> task.response,
     actual |-> <<"TASK_EXECUTION_ERROR: ", e[1], ": ", e[2]>>,
     score |-> 0,
     total_duration |-> now - start_time,
     tool_calls |-> EmptyMetrics,
     num_tool_calls |-> 0,
     summary |-> <<"Task execution failed with ", e[1]>>,
     feedback |-> <<"Error during task execution: ", e[2]>>]

\* state when run_evaluation reaches its task loop with a new agent
InitEval ==
    /\ max_iterations \in 1..MaxIter
    /\ pc = "init"
    /\ messages = <<>>
    /\ tool_metrics = EmptyMetrics
    /\ iteration = 0
    /\ message = NoMessage
    /\ k = 0
    /\ tool_args = NoArgs
    /\ tool_start_ts = 0
    /\ clock = 0
    /\ ret_text = EmptyStr
    /\ ret_metrics = EmptyMetrics
    /\ next_id = 1
    /\ sent = <<>>
    /\ invoked = <<>>
    /\ exc = NoExc
    /\ hpc = "for"
    /\ tasks \in {TaskList(n) : n \in 0..MaxTasks}
    /\ task_i = 0
    /\ start_time = 0
    /\ results = <<>>
    /\ MainIdle
    /\ GraphIdle

\* the for loop takes the next task: evaluate_single_task starts
BeginTask ==
    /\ hpc = "for"
    /\ task_i < Len(tasks)
    /\ start_time' = clock
    /\ hpc' = "task"
    /\ UNCHANGED <<max_iterations, pc, messages, tool_metrics, iteration,
                   message, k, tool_args, tool_start_ts, clock, ret_text,
                   ret_metrics, next_id, sent, invoked, exc, tasks, task_i,
                   results, ovars>>

\* evaluate_single_task calls agent.run(task["prompt"], tools)
EvalRun ==
    /\ hpc = "task"
    /\ Run(tasks[task_i + 1].prompt)

\* what is left of a call of run once it is over: its own variables are
\* gone, the agent is idle; messages, tool_metrics and iteration are shown
\* until the next call of run assigns them
RunIsOver ==
    /\ pc' = "init"
    /\ message' = NoMessage
    /\ k' = 0
    /\ tool_args' = NoArgs
    /\ tool_start_ts' = 0
    /\ ret_text' = EmptyStr
    /\ ret_metrics' = EmptyMetrics
    /\ next_id' = 1
    /\ sent' = <<>>
    /\ invoked' = <<>>
    /\ exc' = NoExc
    /\ UNCHANGED <<max_iterations, messages, tool_metrics, iteration, clock>>

\* agent.run returned: the result is built and appended to results
TaskReturn ==
    /\ hpc = "task"
    /\ pc \in {"DONE", "EXHAUSTED"}
    /\ results' = Append(results, OkTaskResult(tasks[task_i + 1], ret_text,
                                               ret_metrics, clock))
    /\ task_i' = task_i + 1
    /\ hpc' = "for"
    /\ RunIsOver
    /\ UNCHANGED <<tasks, start_time, ovars>>

\* mutant of TaskFail: the exception is not caught and ends the task loop
TaskFail_Aborts ==
    /\ hpc = "task"
    /\ pc = "ERROR"
    /\ hpc' = "report"
    /\ UNCHANGED <<max_iterations, pc, messages, tool_metrics, iteration,
                   message, k, tool_args, tool_start_ts, clock, ret_text,
                   ret_metrics, next_id, sent, invoked, exc, tasks, task_i,
                   start_time, results, ovars>>

\* agent.run raised: except Exception builds the failed result
TaskFail ==
    /\ hpc = "task"
    /\ pc = "ERROR"
    /\ results' = Append(results, FailedTaskResult(tasks[task_i + 1], exc, clock))
    /\ task_i' = task_i + 1
    /\ hpc' = "for"
    /\ RunIsOver
    /\ UNCHANGED <<tasks, start_time, ovars>>

\* the for loop is over: the report is built from results
EndFor ==
    /\ hpc = "for"
    /\ ~(task_i < Len(tasks))
    /\ hpc' = "report"
    /\ UNCHANGED <<max_iterations, pc, messages, tool_metrics, iteration,
                   message, k, tool_args, tool_start_ts, clock, ret_text,
                   ret_metrics, next_id, sent, invoked, exc, tasks, task_i,
                   start_time, results, ovars>>

\* replies and tool calls of the model during an evaluation
EvalContents == {<<"4">>, FullContent}

EvalSpecs ==
    { [name |-> "calc", arguments |-> ObjectArgs],
      [name |-> "calc", arguments |-> BadArgs] }

NextEval ==
    \/ BeginTask
    \/ EvalRun
    \/ CallModel
    \/ Exhaust
    \/ ModelRaise
    \/ \E content \in EvalContents : FinalReply(content)
    \/ \E specs \in SeqsUpTo(EvalSpecs, 1) : ToolReply(None, specs)
    \/ ArgsError
    \/ CallTool
    \/ \E r \in ToolResults : ToolReturn(r, 0)
    \/ \E t \in ErrorTypes, m \in ErrorMsgs : ToolRaise(t, m, 0)
    \/ TaskReturn
    \/ TaskFail
    \/ EndFor

SpecEval == InitEval /\ [][NextEval]_vars

\* ------------------------------------------------------------------------
\* C18
\* ------------------------------------------------------------------------
\* the step in which a call of run starts
RunStarts == pc = "init" /\ pc' = "loop"

\* the task evaluate_single_task is working on
CurrentTask == tasks[task_i + 1]

\* a call of run starts with the transcript [system, user(prompt)], empty
\* metrics and no iteration used
FreshStart ==
    RunStarts
    => /\ messages' = <<[role |-> "system", content |-> SystemPrompt],
                        [role |-> "user", content |-> CurrentTask.prompt]>>
       /\ tool_metrics' = EmptyMetrics
       /\ iteration' = 0

\* during a call of run the transcript, every transcript sent to the model
\* and the metrics hold what this call put there and nothing else
OwnRunOnly ==
    hpc = "task" /\ pc # "init"
    => /\ messages[1] = [role |-> "system", content |-> SystemPrompt]
       /\ messages[2] = [role |-> "user", content |-> CurrentTask.prompt]
       /\ \A j \in 1..Len(tasks) :
             j # task_i + 1
             => /\ \A i \in 1..Len(messages) : messages[i].content # tasks[j].prompt
                /\ \A n \in 1..Len(sent) :
                      \A i \in 1..Len(sent[n]) : sent[n][i].content # tasks[j].prompt
       /\ \A n \in 1..Len(sent) : SubSeq(sent[n], 1, 2) = SubSeq(messages, 1, 2)
       /\ Len(sent) - Cardinality({i \in 1..Len(messages) : IsAssistant(messages[i])})
             \in {0, 1}
       /\ Len(ToolMessagesOf(messages)) = Len(invoked) - Cardinality(Pending)
       /\ \A n \in ToolNames : CountOf(tool_metrics, n) = Finished(n)

\* a later run leaves the results of the earlier tasks as they are
ResultsKept == IsPrefix(results, results')

\* C18: with one agent used for the tasks of a file in turn, every call of
\* run starts with the transcript [system, user(prompt)] and empty metrics,
\* nothing of an earlier call is in its transcript, in what it sends to the
\* model or in its metrics, and the results recorded for earlier tasks are
\* not changed by it.
C18_RunOwnsState == []OwnRunOnly /\ [][FreshStart /\ ResultsKept]_vars

\* C18 witness: the second run of an agent is done after one reply and with
\* empty metrics, the first run having called a tool
C18_Witness ==
    /\ hpc = "task"
    /\ task_i = 1
    /\ pc = "DONE"
    /\ Len(messages) = 3
    /\ ret_metrics = EmptyMetrics
    /\ results[1].num_tool_calls >= 1

\* ------------------------------------------------------------------------
\* C19
\* ------------------------------------------------------------------------
\* a result of a task whose run raised
IsFailedResult(r) ==
    /\ r.score = 0
    /\ r.tool_calls = EmptyMetrics
    /\ r.num_tool_calls = 0

\* results has one entry for each task taken so far, in task order, and one
\* for every task once the loop is over; a run that raised has a handler
OnePerTask ==
    /\ Len(results) = task_i
    /\ task_i <= Len(tasks)
    /\ \A j \in 1..Len(results) :
          /\ results[j].prompt = tasks[j].prompt
          /\ results[j].expected = tasks[j].response
    /\ hpc = "report" => Len(results) = Len(tasks)
    /\ hpc = "task" /\ pc = "ERROR" => ENABLED TaskFail

\* the step after run raised records the failed result of the task and goes
\* back to the for loop
ErrorRecorded ==
    hpc = "task" /\ pc = "ERROR"
    => /\ Len(results') = Len(results) + 1
       /\ SubSeq(results', 1, Len(results)) = results
       /\ IsFailedResult(Last(results'))
       /\ Last(results').prompt = CurrentTask.prompt
       /\ Last(results').actual[2] = exc[1]
       /\ hpc' = "for"
       /\ task_i' = task_i + 1
       /\ tasks' = tasks

\* C19: when agent.run raises for a task (the model call failed, or the
\* arguments of a tool call did not parse), evaluate_single_task returns a
\* result with score 0, empty tool_calls and num_tool_calls 0; the loop goes
\* on with the next task, and results has exactly one entry per task, in
\* task order.
C19_TaskErrorContained == []OnePerTask /\ [][ErrorRecorded]_vars

\* C19 witness: both tasks have a result, the first one failed on the
\* arguments of a tool call and the second one scored
C19_Witness ==
    /\ hpc = "report"
    /\ Len(results) = 2
    /\ IsFailedResult(results[1])
    /\ Len(results[1].actual) = 4
    /\ results[1].actual[2] = "JSONDecodeError"
    /\ results[2].score = 1

\* ------------------------------------------------------------------------
\* C20
\* ------------------------------------------------------------------------
\* what holds at each of the three ends of run
Outcome ==
    /\ pc = "DONE" => TagValid(Last(messages)) /\ ret_text = Last(messages).content
    /\ pc = "EXHAUSTED" => ~(iteration < max_iterations)
    /\ pc = "ERROR" => exc # NoExc
    /\ pc \in {"DONE", "EXHAUSTED"} <=> exc = NoExc /\ pc \in Terminal

\* run ends only at the return after a tag-valid reply, at the return after
\* the while loop, or at a raise out of the model call or the argument
\* parsing; once ended it stays as it is
OnlyThreeExits ==
    /\ pc \notin Terminal /\ pc' \in Terminal
       => \/ pc = "await_model" /\ pc' = "DONE"
          \/ pc = "loop" /\ pc' = "EXHAUSTED"
          \/ pc \in {"await_model", "dispatch"} /\ pc' = "ERROR"
    /\ pc \in Terminal => UNCHANGED vars

\* C20: a run in which every model call and every tool call returns or
\* raises ends, in exactly one of DONE (a tag-valid final message is
\* returned), EXHAUSTED (the iteration budget is used up) and a raised fatal
\* error; it has no other exit and does not go on forever.
C20_RunEnds == <>(pc \in Terminal) /\ []Outcome /\ [][OnlyThreeExits]_vars

\* C20 witness: a run with the largest budget ends EXHAUSTED after a tool
\* was called
C20_Witness ==
    /\ pc = "EXHAUSTED"
    /\ max_iterations = MaxIter
    /\ iteration = max_iterations
    /\ Len(invoked) >= 1

\* ------------------------------------------------------------------------
\* The report: format_tool_calls and format_summary_table_row (main.py)
\* ------------------------------------------------------------------------
\* largest number of tool calls of the assistant turn a timeline is built for
MaxTurnCalls == 3

\* tool calls of that turn: each tool, with arguments that parse
TimelineSpecs == {[name |-> n, arguments |-> ObjectArgs] : n \in ToolNames}

\* keys of the metrics dict in iteration order: a dict keeps insertion order,
\* and a key is inserted when the first call of the tool has finished
RECURSIVE KeyOrder(_)
KeyOrder(log) ==
    IF log = <<>> THEN <<>>
    ELSE LET front == KeyOrder(SubSeq(log, 1, Len(log) - 1))
             n == Last(log).name
         IN IF Last(log).outcome = <<"pending">>
               \/ \E i \in 1..Len(front) : front[i] = n
            THEN front
            ELSE Append(front, n)

\* all_calls before the sort: for each key in dict order, its call records
RECURSIVE AllCalls(_, _)
AllCalls(tm, keys) ==
    IF keys = <<>> THEN <<>>
    ELSE LET tool_name == keys[Len(keys)]
         IN AllCalls(tm, SubSeq(keys, 1, Len(keys) - 1))
            \o [i \in 1..Len(tm[tool_name].calls) |->
                  [tool_name |-> tool_name,
                   timestamp |-> tm[tool_name].calls[i].timestamp]]

\* place of a record in a list sorted by timestamp: behind every record
\* whose timestamp is not greater
RECURSIVE InsertByTimestamp(_, _)
InsertByTimestamp(sorted, call) ==
    IF sorted = <<>> THEN <<call>>
    ELSE IF Last(sorted).timestamp <= call.timestamp THEN Append(sorted, call)
    ELSE Append(InsertByTimestamp(SubSeq(sorted, 1, Len(sorted) - 1), call),
                Last(sorted))

\* all_calls.sort(key=lambda x: x["timestamp"]): list.sort is stable
RECURSIVE SortByTimestamp(_)
SortByTimestamp(calls) ==
    IF calls = <<>> THEN <<>>
    ELSE InsertByTimestamp(SortByTimestamp(SubSeq(calls, 1, Len(calls) - 1)),
                           Last(calls))

\* the tool names of the timeline, in the order the report lists them
Timeline(tm, keys) ==
    LET all_calls == SortByTimestamp(AllCalls(tm, keys))
    IN [i \in 1..Len(all_calls) |-> all_calls[i].tool_name]

\* run has received its only reply, an assistant message with 1..MaxTurnCalls
\* tool calls, and is about to dispatch the first one
InitTimeline ==
    /\ max_iterations = 1
    /\ pc = "dispatch"
    /\ \E prompt \in Prompts :
          \E specs \in SeqsUpTo(TimelineSpecs, MaxTurnCalls) :
             /\ specs # <<>>
             /\ message = AssistantMessage(None, WithIds(specs, 1))
             /\ sent = <<<<[role |-> "system", content |-> SystemPrompt],
                           [role |-> "user", content |-> prompt]>>>>
             /\ messages = Append(sent[1], message)
             /\ next_id = Len(specs) + 1
    /\ tool_metrics = EmptyMetrics
    /\ iteration = 1
    /\ k = 1
    /\ tool_args = NoArgs
    /\ tool_start_ts = 0
    /\ clock = 0
    /\ ret_text = EmptyStr
    /\ ret_metrics = EmptyMetrics
    /\ invoked = <<>>
    /\ exc = NoExc
    /\ hpc = "idle"
    /\ tasks = <<>>
    /\ task_i = 0
    /\ start_time = 0
    /\ results = <<>>
    /\ MainIdle
    /\ GraphIdle

NextTimeline ==
    \/ CallTool
    \/ \E r \in ToolResults, d \in Ticks : ToolReturn(r, d)
    \/ \E t \in ErrorTypes, m \in ErrorMsgs, d \in Ticks : ToolRaise(t, m, d)
    \/ Exhaust

SpecTimeline == InitTimeline /\ [][NextTimeline]_vars

\* the tool names of the call_tool invocations, in dispatch order
DispatchOrder == [j \in 1..Len(invoked) |-> invoked[j].name]

\* the start timestamps recorded for the invocations do not decrease
RECURSIVE StartsOf(_, _)
StartsOf(tm, log) ==
    IF log = <<>> THEN <<>>
    ELSE LET front == SubSeq(log, 1, Len(log) - 1)
             n == Last(log).name
             nth == Cardinality({j \in 1..Len(log) : log[j].name = n})
         IN Append(StartsOf(tm, front), tm[n].calls[nth].timestamp)

\* C21 as claimed: the timeline the report sorts out of the metrics run
\* returned lists the calls in the order they were dispatched, whenever the
\* start timestamps do not decrease in dispatch order, ties included.
C21_TimelineInDispatchOrder ==
    pc \in {"DONE", "EXHAUSTED"}
       /\ (\A i, j \in 1..Len(invoked) :
              i <= j => StartsOf(ret_metrics, invoked)[i]
                           <= StartsOf(ret_metrics, invoked)[j])
    => Timeline(ret_metrics, KeyOrder(invoked)) = DispatchOrder

\* ------------------------------------------------------------------------
\* Tag extraction on the text run returned
\* ------------------------------------------------------------------------
\* largest number of tokens of a tool result text
MaxTextLen == 5

TextTokens == {"<response>", "</response>", "<summary>", "</summary>", "x", " "}

\* run has returned after its only iteration, in which the model called one
\* tool: the returned text is the content of the tool message, which holds
\* the text of the tool result
InitExtract ==
    /\ max_iterations = 1
    /\ pc = "EXHAUSTED"
    /\ \E prompt \in Prompts, body \in SeqsUpTo(TextTokens, MaxTextLen) :
          LET spec == [name |-> "calc", arguments |-> ObjectArgs]
              msg == AssistantMessage(None, WithIds(<<spec>>, 1))
              tool_result == [isError |-> FALSE, text |-> body]
          IN /\ tasks = <<[prompt |-> prompt, response |-> "x"]>>
             /\ sent = <<<<[role |-> "system", content |-> SystemPrompt],
                           [role |-> "user", content |-> prompt]>>>>
             /\ message = msg
             /\ messages = sent[1] \o <<msg, ToolMessage(msg.tool_calls[1], tool_result)>>
             /\ tool_args = JsonLoads(ObjectArgs).value
             /\ tool_metrics = RecordMetrics(EmptyMetrics, "calc", tool_args, 0, 0)
             /\ invoked = <<[id |-> 1, name |-> "calc", args |-> tool_args,
                             outcome |-> <<"returned">>]>>
             /\ ret_text = GetContent(Last(messages))
    /\ ret_metrics = tool_metrics
    /\ iteration = 1
    /\ k = 1
    /\ tool_start_ts = 0
    /\ clock = 0
    /\ next_id = 2
    /\ exc = NoExc
    /\ hpc = "task"
    /\ task_i = 0
    /\ start_time = 0
    /\ results = <<>>
    /\ MainIdle
    /\ GraphIdle

NextExtract ==
    \/ TaskReturn
    \/ EndFor

SpecExtract == InitExtract /\ [][NextExtract]_vars

\* ------------------------------------------------------------------------
\* C22
\* ------------------------------------------------------------------------
Positions(text, token) == {i \in 1..Len(text) : text[i] = token}

\* the closing tags that end a complete region when the text is read from
\* left to right: an opening tag stands between the closing tag before and it
RegionEnds(text, open) ==
    {c \in Positions(text, CloseTag(open)) :
        \E o \in Positions(text, open) :
            /\ o < c
            /\ \A c2 \in Positions(text, CloseTag(open)) : c2 < c => c2 < o}

\* the last complete region: it ends at the last such closing tag and starts
\* at the first opening tag behind the region before it
LastRegion(text, open) ==
    LET ends == RegionEnds(text, open)
        c == CHOOSE x \in ends : \A y \in ends : y <= x
        before == {y \in ends : y < c}
        o == CHOOSE x \in Positions(text, open) :
                /\ \A y \in before : y < x
                /\ \A z \in Positions(text, open) : (\A y \in before : y < z) => x <= z
    IN SubSeq(text, o + 1, c - 1)

\* a text without the white space at its two ends
Trimmed(text) ==
    LET solid == {i \in 1..Len(text) : text[i] # " "}
    IN IF solid = {} THEN <<>>
       ELSE SubSeq(text, CHOOSE x \in solid : \A y \in solid : x <= y,
                         CHOOSE x \in solid : \A y \in solid : y <= x)

\* what the extraction of a tag from a text has to give
LastComplete(text, open) ==
    IF text = EmptyStr \/ RegionEnds(text, open) = {} THEN None
    ELSE Trimmed(LastRegion(text, open))

\* C22: the result of a task holds, for response, summary and feedback, the
\* stripped content of the last complete region of that tag in the text run
\* returned, and None when the text is empty or has no complete region of
\* that tag.
C22_LastCompleteRegion ==
    Len(results) = 1
    => LET text == GetContent(Last(messages))
       IN /\ results[1].actual = LastComplete(text, "<response>")
          /\ results[1].summary = LastComplete(text, "<summary>")
          /\ results[1].feedback = LastComplete(text, "<feedback>")

\* C22 witness: the text holds two complete response regions with different
\* contents and the result holds the content of the second one
C22_Witness ==
    /\ Len(results) = 1
    /\ Cardinality(RegionEnds(GetContent(Last(messages)), "<response>")) = 2
    /\ results[1].actual = <<"x">>
    /\ FindAll(GetContent(Last(messages)), "<response>", 1)[1] # <<"x">>

\* ------------------------------------------------------------------------
\* C24
\* ------------------------------------------------------------------------
\* the step in which run handles an assistant message without tool calls
TagRoundStep == pc = "await_model" /\ pc' \in {"loop", "DONE"}

\* C24: a round whose assistant message has no tool calls invokes no tool
\* and leaves the metrics as they are; the model call uses one iteration,
\* and handling the reply changes only the transcript, by the assistant
\* message and, when tags are missing, the synthetic user message.
C24_TagRoundFrame ==
    [][/\ pc = "loop" /\ pc' = "await_model"
          => /\ iteration' = iteration + 1
             /\ UNCHANGED <<messages, tool_metrics, invoked, clock, max_iterations>>
       /\ TagRoundStep
          => /\ UNCHANGED <<tool_metrics, invoked, clock, iteration,
                            max_iterations, next_id, sent>>
             /\ IsPrefix(messages, messages')
             /\ IsAssistant(messages'[Len(messages) + 1])
             /\ messages'[Len(messages) + 1].tool_calls = <<>>
             /\ IF pc' = "DONE"
                THEN /\ Len(messages') = Len(messages) + 1
                     /\ ret_metrics' = tool_metrics
                ELSE /\ Len(messages') = Len(messages) + 2
                     /\ Last(messages').role = "user"
                     /\ UNCHANGED <<ret_text, ret_metrics>>]_vars

\* C24 witness: a tag retry after a tool round, the metrics of the tool
\* round still there
C24_Witness ==
    /\ pc = "loop"
    /\ Len(messages) >= 5
    /\ Last(messages).role = "user"
    /\ tool_metrics # EmptyMetrics
    /\ Len(invoked) = SumCounts(tool_metrics, DOMAIN tool_metrics)

\* ------------------------------------------------------------------------
\* C25
\* ------------------------------------------------------------------------
\* run has raised on the arguments of the k-th tool call of the latest turn
ArgsFailed == pc = "ERROR" /\ exc[1] = "JSONDecodeError"

\* the tool call with this id was invoked and has its tool message
Performed(id) ==
    /\ \E j \in 1..Len(invoked) :
          invoked[j].id = id /\ invoked[j].outcome # <<"pending">>
    /\ \E i \in 1..Len(messages) :
          messages[i].role = "tool" /\ messages[i].tool_call_id = id

\* the tool call with this id was not invoked and has no tool message
Untouched(id) ==
    /\ \A j \in 1..Len(invoked) : invoked[j].id # id
    /\ \A i \in 1..Len(messages) :
          messages[i].role = "tool" => messages[i].tool_call_id # id

\* C25: when the arguments of the k-th tool call of a turn do not parse, the
\* calls 1..k-1 of the turn have been invoked and answered, the calls k..n
\* have not been invoked, and the metrics recorded so far are not returned.
C25_PartialTurnOnArgsError ==
    ArgsFailed
    => /\ message = messages[LastAssistant(messages)]
       /\ ~JsonLoads(message.tool_calls[k].arguments).ok
       /\ \A j \in 1..(k - 1) : Performed(message.tool_calls[j].id)
       /\ \A j \in k..Len(message.tool_calls) : Untouched(message.tool_calls[j].id)
       /\ \A n \in ToolNames : CountOf(tool_metrics, n) = Dispatches(n)
       /\ ret_metrics = EmptyMetrics
       /\ ret_text = EmptyStr

\* C25 witness: the second call of a turn fails on its arguments after the
\* first one was invoked and recorded
C25_Witness ==
    /\ ArgsFailed
    /\ k = 2
    /\ Len(invoked) = 1
    /\ Last(messages).role = "tool"
    /\ tool_metrics # EmptyMetrics

\* ------------------------------------------------------------------------
\* The tool-call totals of the report
\* ------------------------------------------------------------------------
\* the summary string of format_tool_calls
ToolCallsSummary(tm) ==
    IF tm = EmptyMetrics THEN <<"No tools called">>
    ELSE <<ToString(SumCounts(tm, DOMAIN tm)), " calls across ",
           ToString(Cardinality(DOMAIN tm)), " tools">>

RECURSIVE SumCallRecords(_, _)
\* tool_call_count += len(metrics.get("calls", [])) over the values
SumCallRecords(tm, S) ==
    IF S = {} THEN 0
    ELSE LET n == CHOOSE x \in S : TRUE
         IN Len(tm[n].calls) + SumCallRecords(tm, S \ {n})

\* the tool-call count of format_summary_table_row
ToolCallCount(tm) == IF tm # EmptyMetrics THEN SumCallRecords(tm, DOMAIN tm) ELSE 0

\* ------------------------------------------------------------------------
\* C28
\* ------------------------------------------------------------------------
\* C28: for the metrics run returns, num_tool_calls of the task result, the
\* number of calls in the summary of format_tool_calls and the tool-call
\* count of the summary table row all equal the number of tool invocations
\* of the run.
C28_TotalsAgree ==
    pc \in {"DONE", "EXHAUSTED"}
    => /\ SumDurations(ret_metrics, DOMAIN ret_metrics) = Len(invoked)
       /\ ToolCallCount(ret_metrics) = Len(invoked)
       /\ IF invoked = <<>>
          THEN ToolCallsSummary(ret_metrics) = <<"No tools called">>
          ELSE ToolCallsSummary(ret_metrics)[1] = ToString(Len(invoked))

\* C28 witness: run returns after calling one tool twice, once with an error
C28_Witness ==
    /\ pc \in {"DONE", "EXHAUSTED"}
    /\ Len(invoked) = 2
    /\ DOMAIN ret_metrics = {"calc"}
    /\ \E j \in 1..2 : invoked[j].outcome[1] = "raised"

\* ------------------------------------------------------------------------
\* main: the choice of the evaluation files (main.py)
\* ------------------------------------------------------------------------
\* largest number of characters of an evaluation name
MaxNameLen == 2

\* a string is the sequence of its characters
Letters == {"a", "b", "c"}

EvaluationName == <<"e", "v", "a", "l", "u", "a", "t", "i", "o", "n">>

\* "evaluation_"
EvaluationPrefix == Append(EvaluationName, "_")

\* ".xml"
XmlExt == <<".", "x", "m", "l">>

\* "evaluation.xml"
EvaluationXml == EvaluationName \o XmlExt

StartsWith(str, prefix) ==
    Len(str) >= Len(prefix) /\ SubSeq(str, 1, Len(prefix)) = prefix

RECURSIVE RemoveAll(_, _)
\* str.replace(old, ""): the occurrences of old are taken from left to right
RemoveAll(str, old) ==
    IF str = <<>> THEN <<>>
    ELSE IF StartsWith(str, old)
    THEN RemoveAll(SubSeq(str, Len(old) + 1, Len(str)), old)
    ELSE <<str[1]>> \o RemoveAll(SubSeq(str, 2, Len(str)), old)

\* resolve_eval_file: the name of the file in the dataset directory
ResolveEvalFile(eval_name) ==
    IF eval_name = EvaluationXml THEN EvaluationXml
    ELSE LET no_ext == RemoveAll(eval_name, XmlExt)
             short == IF StartsWith(no_ext, EvaluationPrefix)
                      THEN SubSeq(no_ext, 13, Len(no_ext))
                      ELSE no_ext
         IN IF short = EvaluationName \/ short = <<>>
            THEN EvaluationXml
            ELSE EvaluationPrefix \o short \o XmlExt

\* the names an evaluation can have
EvalNames == SeqsUpTo(Letters, MaxNameLen) \ {<<>>}

\* the documented spellings of the evaluation with name x
Spellings(x) ==
    {x, x \o XmlExt, EvaluationPrefix \o x, EvaluationPrefix \o x \o XmlExt}

\* main is called with --eval
InitResolve ==
    /\ max_iterations \in {MaxIter}
    /\ pc = "init"
    /\ messages = <<>>
    /\ tool_metrics = EmptyMetrics
    /\ iteration = 0
    /\ message = NoMessage
    /\ k = 0
    /\ tool_args = NoArgs
    /\ tool_start_ts = 0
    /\ clock = 0
    /\ ret_text = EmptyStr
    /\ ret_metrics = EmptyMetrics
    /\ next_id = 1
    /\ sent = <<>>
    /\ invoked = <<>>
    /\ exc = NoExc
    /\ hpc = "idle"
    /\ tasks = <<>>
    /\ task_i = 0
    /\ start_time = 0
    /\ results = <<>>
    /\ mpc = "main"
    /\ eval_arg \in UNION {Spellings(x) : x \in EvalNames} \cup {EvaluationXml}
    /\ eval_files = <<>>
    /\ file_i = 0
    /\ successful = 0
    /\ failed = 0
    /\ mcp_url \in {"None", "url"}
    /\ mcp_session = "None"
    /\ mcp_streams = "None"
    /\ agent_session = "None"
    /\ session_uses = {}
    /\ report = "None"
    /\ GraphIdle

\* what main leaves alone while it chooses the files
MainFrame ==
    UNCHANGED <<max_iterations, pc, messages, tool_metrics, iteration, message,
                k, tool_args, tool_start_ts, clock, ret_text, ret_metrics,
                next_id, sent, invoked, exc, hvars, gvars>>

\* main with --eval: the name is resolved; main returns when the file does
\* not exist and goes on with this one file otherwise
MainResolve(exists) ==
    /\ mpc = "main"
    /\ eval_arg # None
    /\ IF exists
       THEN /\ eval_files' = <<ResolveEvalFile(eval_arg)>>
            /\ mpc' = "for"
       ELSE /\ eval_files' = eval_files
            /\ mpc' = "returned"
    /\ UNCHANGED <<eval_arg, file_i, successful, failed, mcp_url, mcp_session,
                   mcp_streams, agent_session, session_uses, report>>
    /\ MainFrame

NextResolve == \E exists \in BOOLEAN : MainResolve(exists)

SpecResolve == InitResolve /\ [][NextResolve]_vars

\* ------------------------------------------------------------------------
\* C23
\* ------------------------------------------------------------------------
\* C23 as claimed: the spellings x, x.xml, evaluation_x and evaluation_x.xml
\* of an evaluation name all resolve to evaluation_x.xml, and evaluation.xml
\* resolves to evaluation.xml.
C23_SpellingsResolveAlike ==
    mpc = "for"
    => /\ \A x \in EvalNames :
             eval_arg \in Spellings(x)
             => eval_files = <<EvaluationPrefix \o x \o XmlExt>>
       /\ eval_arg = EvaluationXml => eval_files = <<EvaluationXml>>

\* ------------------------------------------------------------------------
\* main, run_evaluation and the global MCP session (main.py)
\* ------------------------------------------------------------------------
\* largest number of evaluation files in the dataset directory
MaxFiles == 2

\* the j-th file of the sorted dataset directory; the even ones are workflow
\* evaluations
EvalFile(j) ==
    EvaluationPrefix \o <<ToString(j)>>
    \o (IF j % 2 = 0 THEN <<"_", "workflow">> ELSE <<>>) \o XmlExt

\* get_all_evaluation_files() for a directory with n evaluation files
DatasetFiles(n) == [j \in 1..n |-> EvalFile(j)]

\* "collaboration" in eval_file_name or "workflow" in eval_file_name
NeedsUpload(file) == Contains(file, "collaboration") \/ Contains(file, "workflow")

\* how far init_global_mcp_session gets
SessionOutcomes == {"client_fail", "streams_fail", "enter_fail", "initialize_fail", "ok"}

\* main is called without --eval
InitMain ==
    /\ max_iterations = 1
    /\ pc = "init"
    /\ messages = <<>>
    /\ tool_metrics = EmptyMetrics
    /\ iteration = 0
    /\ message = NoMessage
    /\ k = 0
    /\ tool_args = NoArgs
    /\ tool_start_ts = 0
    /\ clock = 0
    /\ ret_text = EmptyStr
    /\ ret_metrics = EmptyMetrics
    /\ next_id = 1
    /\ sent = <<>>
    /\ invoked = <<>>
    /\ exc = NoExc
    /\ hpc = "idle"
    /\ tasks = <<>>
    /\ task_i = 0
    /\ start_time = 0
    /\ results = <<>>
    /\ mpc = "main"
    /\ eval_arg = None
    /\ eval_files = <<>>
    /\ file_i = 0
    /\ successful = 0
    /\ failed = 0
    /\ mcp_url \in {"None", "url"}
    /\ mcp_session = "None"
    /\ mcp_streams = "None"
    /\ agent_session = "None"
    /\ session_uses = {}
    /\ report = "None"
    /\ GraphIdle

\* main without --eval: all files of the dataset directory, or return when
\* there is none
MainAll(n) ==
    /\ mpc = "main"
    /\ eval_arg = None
    /\ IF n = 0
       THEN /\ eval_files' = eval_files
            /\ mpc' = "returned"
       ELSE /\ eval_files' = DatasetFiles(n)
            /\ mpc' = "for"
    /\ UNCHANGED <<eval_arg, file_i, successful, failed, mcp_url, mcp_session,
                   mcp_streams, agent_session, session_uses, report>>
    /\ MainFrame

\* the for loop of main takes the next file and calls run_evaluation
NextFile ==
    /\ mpc = "for"
    /\ file_i < Len(eval_files)
    /\ report' = "None"
    /\ mpc' = IF mcp_url # "None" THEN "init_session" ELSE "parse"
    /\ UNCHANGED <<eval_arg, eval_files, file_i, successful, failed, mcp_url,
                   mcp_session, mcp_streams, agent_session, session_uses>>
    /\ MainFrame

\* init_global_mcp_session: both globals are assigned before the object is
\* entered, and the except branch returns None without resetting them
InitGlobalMcpSession(outcome) ==
    /\ mpc = "init_session"
    /\ IF mcp_session # "None"
       THEN UNCHANGED <<mcp_session, mcp_streams>>
       ELSE /\ mcp_streams' = CASE outcome = "client_fail"  -> mcp_streams
                                [] outcome = "streams_fail" -> "created"
                                [] OTHER                    -> "open"
            /\ mcp_session' = CASE outcome = "enter_fail"      -> "created"
                                [] outcome = "initialize_fail" -> "entered"
                                [] outcome = "ok"              -> "ready"
                                [] OTHER                       -> mcp_session
    /\ mpc' = "upload"
    /\ UNCHANGED <<eval_arg, eval_files, file_i, successful, failed, mcp_url,
                   agent_session, session_uses, report>>
    /\ MainFrame

\* upload_test_files_to_sandbox: upload_file_to_sandbox calls call_tool on
\* the global session unless it is None; its exceptions are caught
UploadTestFiles ==
    /\ mpc = "upload"
    /\ session_uses' = IF NeedsUpload(eval_files[file_i + 1]) /\ mcp_session # "None"
                       THEN session_uses \cup {mcp_session}
                       ELSE session_uses
    /\ mpc' = "parse"
    /\ UNCHANGED <<eval_arg, eval_files, file_i, successful, failed, mcp_url,
                   mcp_session, mcp_streams, agent_session, report>>
    /\ MainFrame

\* parser.parse(eval_file): the tasks of the file, [] when it does not parse
ParseTasks(n) ==
    /\ mpc = "parse"
    /\ tasks' = TaskList(n)
    /\ mpc' = IF mcp_url # "None" THEN "get_tools" ELSE "agent"
    /\ UNCHANGED <<max_iterations, pc, messages, tool_metrics, iteration, message,
                   k, tool_args, tool_start_ts, clock, ret_text, ret_metrics,
                   next_id, sent, invoked, exc, hpc, task_i, start_time,
                   results, gvars>>
    /\ UNCHANGED <<eval_arg, eval_files, file_i, successful, failed, mcp_url,
                   mcp_session, mcp_streams, agent_session, session_uses, report>>

\* get_mcp_tools: list_tools is called on the global session unless it is
\* None; its exceptions are caught
GetMcpTools ==
    /\ mpc = "get_tools"
    /\ session_uses' = IF mcp_session # "None"
                       THEN session_uses \cup {mcp_session}
                       ELSE session_uses
    /\ mpc' = "agent"
    /\ UNCHANGED <<eval_arg, eval_files, file_i, successful, failed, mcp_url,
                   mcp_session, mcp_streams, agent_session, report>>
    /\ MainFrame

\* agent = AzureOpenAIAgentLoop(mcp_session=_mcp_session), results = []; the
\* iteration budget of the agent is taken as 1
MakeAgent ==
    /\ mpc = "agent"
    /\ agent_session' = mcp_session
    /\ max_iterations' = 1
    /\ pc' = "init"
    /\ messages' = <<>>
    /\ tool_metrics' = EmptyMetrics
    /\ iteration' = 0
    /\ results' = <<>>
    /\ task_i' = 0
    /\ hpc' = "for"
    /\ mpc' = "tasks"
    /\ UNCHANGED <<message, k, tool_args, tool_start_ts, clock, ret_text,
                   ret_metrics, next_id, sent, invoked, exc, tasks, start_time,
                   gvars>>
    /\ UNCHANGED <<eval_arg, eval_files, file_i, successful, failed, mcp_url,
                   mcp_session, mcp_streams, session_uses, report>>

\* format_tool_calls raises on a call record whose args are not empty and
\* have no items()
FormatToolCallsRaises(tm) ==
    \E n \in DOMAIN tm :
        \E i \in 1..Len(tm[n].calls) : tm[n].calls[i].args.type # "dict"

\* the rest of the try block of run_evaluation: the report is built and
\* returned, or building it raises
ReturnReport ==
    /\ mpc = "tasks"
    /\ hpc = "report"
    /\ report' = IF \E j \in 1..Len(results) : FormatToolCallsRaises(results[j].tool_calls)
                 THEN "raised"
                 ELSE "report"
    /\ hpc' = "idle"
    /\ mpc' = "finally"
    /\ UNCHANGED <<max_iterations, pc, messages, tool_metrics, iteration, message,
                   k, tool_args, tool_start_ts, clock, ret_text, ret_metrics,
                   next_id, sent, invoked, exc, tasks, task_i, start_time,
                   results, gvars>>
    /\ UNCHANGED <<eval_arg, eval_files, file_i, successful, failed, mcp_url,
                   mcp_session, mcp_streams, agent_session, session_uses>>

\* mutant of Cleanup: the session is cleaned up at the end of the try block
\* and not in a finally clause
Cleanup_OnlyOnReturn ==
    /\ mpc = "finally"
    /\ IF mcp_url # "None" /\ report = "report"
       THEN mcp_session' = "None" /\ mcp_streams' = "None"
       ELSE UNCHANGED <<mcp_session, mcp_streams>>
    /\ mpc' = "after"
    /\ UNCHANGED <<eval_arg, eval_files, file_i, successful, failed, mcp_url,
                   agent_session, session_uses, report>>
    /\ MainFrame

\* the finally clause of run_evaluation: cleanup_global_mcp_session exits
\* what is set, swallows what that raises, and sets both globals to None
Cleanup ==
    /\ mpc = "finally"
    /\ IF mcp_url # "None"
       THEN mcp_session' = "None" /\ mcp_streams' = "None"
       ELSE UNCHANGED <<mcp_session, mcp_streams>>
    /\ mpc' = "after"
    /\ UNCHANGED <<eval_arg, eval_files, file_i, successful, failed, mcp_url,
                   agent_session, session_uses, report>>
    /\ MainFrame

\* run_evaluation returned the report: main writes it; a failing write is
\* caught like any other exception
SaveReport(write_ok) ==
    /\ mpc = "after"
    /\ report = "report"
    /\ IF write_ok
       THEN successful' = successful + 1 /\ failed' = failed
       ELSE successful' = successful /\ failed' = failed + 1
    /\ file_i' = file_i + 1
    /\ mpc' = "for"
    /\ UNCHANGED <<eval_arg, eval_files, mcp_url, mcp_session, mcp_streams,
                   agent_session, session_uses, report>>
    /\ MainFrame

\* mutant of FileFailed: the exception of run_evaluation leaves main
FileFailed_Aborts ==
    /\ mpc = "after"
    /\ report = "raised"
    /\ mpc' = "summary"
    /\ UNCHANGED <<eval_arg, eval_files, file_i, successful, failed, mcp_url,
                   mcp_session, mcp_streams, agent_session, session_uses, report>>
    /\ MainFrame

\* run_evaluation raised: except Exception counts the file as failed
FileFailed ==
    /\ mpc = "after"
    /\ report = "raised"
    /\ failed' = failed + 1
    /\ file_i' = file_i + 1
    /\ mpc' = "for"
    /\ UNCHANGED <<eval_arg, eval_files, successful, mcp_url, mcp_session,
                   mcp_streams, agent_session, session_uses, report>>
    /\ MainFrame

\* the for loop of main is over: the summary is printed
MainSummary ==
    /\ mpc = "for"
    /\ ~(file_i < Len(eval_files))
    /\ mpc' = "summary"
    /\ UNCHANGED <<eval_arg, eval_files, file_i, successful, failed, mcp_url,
                   mcp_session, mcp_streams, agent_session, session_uses, report>>
    /\ MainFrame

\* tool calls of the model during main: arguments that are a JSON array
MainSpecs == {[name |-> "shell", arguments |-> ArrayArgs]}

NextMain ==
    \/ \E n \in 0..MaxFiles : MainAll(n)
    \/ NextFile
    \/ \E outcome \in SessionOutcomes : InitGlobalMcpSession(outcome)
    \/ UploadTestFiles
    \/ \E n \in 0..MaxTasks : ParseTasks(n)
    \/ GetMcpTools
    \/ MakeAgent
    \/ BeginTask
    \/ EvalRun
    \/ CallModel
    \/ Exhaust
    \/ ModelRaise
    \/ FinalReply(FullContent)
    \/ \E specs \in SeqsUpTo(MainSpecs, 1) : ToolReply(None, specs)
    \/ CallTool
    \/ \E r \in ToolResults : agent_session = "ready" /\ ToolReturn(r, 0)
    \/ \E t \in ErrorTypes, m \in ErrorMsgs : ToolRaise(t, m, 0)
    \/ TaskReturn
    \/ TaskFail
    \/ EndFor
    \/ ReturnReport
    \/ Cleanup
    \/ \E write_ok \in BOOLEAN : SaveReport(write_ok)
    \/ FileFailed
    \/ MainSummary

SpecMain == InitMain /\ [][NextMain]_vars

\* ------------------------------------------------------------------------
\* C26
\* ------------------------------------------------------------------------
\* C26 as claimed: the global session is not None only when its
\* initialization was completed, so get_mcp_tools, the upload and the agent
\* never work on a session that is not initialized.
C26_SessionNoneUnlessReady ==
    /\ mcp_session \in {"None", "ready"}
    /\ session_uses \subseteq {"ready"}
    /\ agent_session \in {"None", "ready"}

\* ------------------------------------------------------------------------
\* C27
\* ------------------------------------------------------------------------
\* C27: when run_evaluation was called with a server URL and has returned or
\* raised, the global session and the global streams are None, and every
\* call of init_global_mcp_session finds them None and opens a new session.
C27_SessionCleanedUp ==
    /\ mcp_url # "None" /\ mpc \in {"after", "for", "summary"}
          => mcp_session = "None" /\ mcp_streams = "None"
    /\ mpc = "init_session" => mcp_session = "None" /\ mcp_streams = "None"

\* C27 witness: run_evaluation raised while building the report, after the
\* agent had worked on an initialized session, and the globals are None
C27_Witness ==
    /\ mpc = "after"
    /\ mcp_url = "url"
    /\ report = "raised"
    /\ agent_session = "ready"
    /\ mcp_session = "None"
    /\ mcp_streams = "None"

\* ------------------------------------------------------------------------
\* C29
\* ------------------------------------------------------------------------
\* every file taken so far was counted once
FilesCounted ==
    /\ successful + failed = file_i
    /\ file_i <= Len(eval_files)
    /\ mpc \notin {"main", "returned", "for", "summary"} => file_i < Len(eval_files)
    /\ mpc = "summary" => file_i = Len(eval_files)

\* the files are taken one by one in the order of the list: the loop comes
\* back for the next file after every file, however run_evaluation and the
\* write ended
FilesInTurn ==
    /\ mpc # "main" => eval_files' = eval_files
    /\ mpc = "after" => mpc' = "for" /\ file_i' = file_i + 1
    /\ mpc # "after" => file_i' = file_i
    /\ mpc = "for" /\ mpc' = "summary" => file_i = Len(eval_files)

\* C29: main processes every evaluation file once and in order; a failure of
\* run_evaluation or of writing the report for one file does not keep main
\* from the later files, and at the end successful + failed is the number
\* of files.
C29_EveryFileProcessed == []FilesCounted /\ [][FilesInTurn]_vars

\* C29 witness: two files were processed, one failed in run_evaluation or in
\* the write and one succeeded
C29_Witness ==
    /\ mpc = "summary"
    /\ Len(eval_files) = 2
    /\ failed = 1
    /\ successful = 1

\* ------------------------------------------------------------------------
\* The LangGraph example (examples/langgraph-agent/main.py)
\* ------------------------------------------------------------------------
\* largest number of steps of a graph run (the recursion limit of the graph)
MaxGraphSteps == 6

FinalAnswerMark == "FINAL_ANSWER:"

\* what the model answers in the nodes that call it
GraphReplies ==
    { <<"PLANNED_ACTION:", "compute">>,
      <<FinalAnswerMark, " ", "42">>,
      <<FinalAnswerMark>>,
      <<"done", " ", FinalAnswerMark, " ">> }

\* what the prebuilt tool node hands back as messages
GraphToolMessages == {<<>>, <<[type |-> "tool", content |-> <<"result">>]>>}

AIMessage(content) == [type |-> "ai", content |-> content]

\* content.replace("FINAL_ANSWER:", "")
WithoutMark(content) == SelectSeq(content, LAMBDA t : t # FinalAnswerMark)

\* should_continue(state)
ShouldContinue(msgs) ==
    IF msgs # <<>> /\ Last(msgs).type = "ai"
       /\ Strip(Last(msgs).content) # <<>>
       /\ Last(Strip(Last(msgs).content)) = FinalAnswerMark
    THEN "end"
    ELSE "continue"

\* run_graph(query): the initial state, the entry point is understand
InitGraph ==
    /\ max_iterations \in {MaxIter}
    /\ pc = "init"
    /\ messages = <<>>
    /\ tool_metrics = EmptyMetrics
    /\ iteration = 0
    /\ message = NoMessage
    /\ k = 0
    /\ tool_args = NoArgs
    /\ tool_start_ts = 0
    /\ clock = 0
    /\ ret_text = EmptyStr
    /\ ret_metrics = EmptyMetrics
    /\ next_id = 1
    /\ sent = <<>>
    /\ invoked = <<>>
    /\ exc = NoExc
    /\ hpc = "idle"
    /\ tasks = <<>>
    /\ task_i = 0
    /\ start_time = 0
    /\ results = <<>>
    /\ MainIdle
    /\ gpc = "understand"
    /\ \E query \in Prompts : g_messages = <<[type |-> "human", content |-> query]>>
    /\ g_current_step = "understand"
    /\ g_final_answer = EmptyStr
    /\ g_iterations = 0
    /\ g_steps = 0

\* what a node of the graph leaves alone
GraphFrame ==
    UNCHANGED <<max_iterations, pc, messages, tool_metrics, iteration, message,
                k, tool_args, tool_start_ts, clock, ret_text, ret_metrics,
                next_id, sent, invoked, exc, hvars, mvars>>

\* a node runs as one step of the graph, below the recursion limit
GraphStep(node) ==
    /\ gpc = node
    /\ g_steps < MaxGraphSteps
    /\ g_steps' = g_steps + 1

\* understand_node, then the edge to plan
UnderstandNode(response) ==
    /\ GraphStep("understand")
    /\ g_messages' = Append(g_messages, AIMessage(response))
    /\ g_current_step' = "plan"
    /\ g_final_answer' = EmptyStr
    /\ g_iterations' = g_iterations + 1
    /\ gpc' = "plan"
    /\ GraphFrame

\* plan_node, then the edge to execute
PlanNode(response) ==
    /\ GraphStep("plan")
    /\ g_messages' = Append(g_messages, AIMessage(response))
    /\ g_current_step' = "execute"
    /\ g_final_answer' = EmptyStr
    /\ gpc' = "execute"
    /\ UNCHANGED g_iterations
    /\ GraphFrame

\* execute_node, then the conditional edge: should_continue picks tools or END
ExecuteNode ==
    /\ GraphStep("execute")
    /\ IF g_messages # <<>> /\ Last(g_messages).type = "ai"
          /\ Contains(Last(g_messages).content, FinalAnswerMark)
       THEN /\ g_final_answer' = Strip(WithoutMark(Last(g_messages).content))
            /\ g_current_step' = "answer"
       ELSE UNCHANGED <<g_final_answer, g_current_step>>
    /\ gpc' = IF ShouldContinue(g_messages) = "end" THEN "END" ELSE "tools"
    /\ UNCHANGED <<g_messages, g_iterations>>
    /\ GraphFrame

\* the prebuilt tool node, then the edge to review: the messages it hands
\* back replace or extend the messages of the state
ToolsNode(kept, tool_messages) ==
    /\ GraphStep("tools")
    /\ g_messages' = (IF kept THEN g_messages ELSE <<>>) \o tool_messages
    /\ gpc' = "review"
    /\ UNCHANGED <<g_current_step, g_final_answer, g_iterations>>
    /\ GraphFrame

\* review_node, then the edge to plan
ReviewNode(response) ==
    /\ GraphStep("review")
    /\ g_messages' = Append(g_messages, AIMessage(response))
    /\ g_current_step' = "plan"
    /\ g_final_answer' = EmptyStr
    /\ gpc' = "plan"
    /\ UNCHANGED g_iterations
    /\ GraphFrame

\* a node raises (create_llm, llm.invoke or the tool node), or the recursion
\* limit is hit: the graph run ends with an exception
GraphRaise ==
    /\ gpc \in {"understand", "plan", "tools", "review"}
          \/ (gpc = "execute" /\ ~(g_steps < MaxGraphSteps))
    /\ gpc' = "ERROR"
    /\ UNCHANGED <<g_messages, g_current_step, g_final_answer, g_iterations, g_steps>>
    /\ GraphFrame

NextGraph ==
    \/ \E response \in GraphReplies : UnderstandNode(response)
    \/ \E response \in GraphReplies : PlanNode(response)
    \/ ExecuteNode
    \/ \E kept \in BOOLEAN, tool_messages \in GraphToolMessages :
          ToolsNode(kept, tool_messages)
    \/ \E response \in GraphReplies : ReviewNode(response)
    \/ GraphRaise

SpecGraph == InitGraph /\ [][NextGraph]_vars

\* ------------------------------------------------------------------------
\* C30
\* ------------------------------------------------------------------------
\* C30 as claimed: whenever execute_node has recorded a final answer, the
\* conditional edge after execute has routed to END.
C30_FinalAnswerEnds == g_current_step = "answer" => gpc = "END"

====
